---- MODULE Spec2Model ----
(***************************************************************************)
(* Bracket placement engine (seedingEngine.js) and pairing engine         *)
(* (pairingEngine.js) of RTC_DRAW_AUTOMATION.                              *)
(*                                                                         *)
(* JavaScript arrays are TLA+ sequences; the JavaScript index i is the     *)
(* sequence index i+1 (see at / setAt).  JavaScript objects are records;   *)
(* a field an object does not have is a field the record does not have.    *)
(* Every Math.random() call is a nondeterministic draw, so an operation    *)
(* that shuffles is modelled by the SET of results it can return.          *)
(*                                                                         *)
(* Doubles team handicaps (teamHandicap.js) and handicap rounding by event *)
(* class (handicapRounding.js).  Handicaps are JavaScript numbers with at  *)
(* most one decimal; they are modelled as integers counting tenths, so     *)
(* 3.8 is 38 and 30.5 is 305.                                              *)
(***************************************************************************)
EXTENDS Integers, Sequences, FiniteSets, TLC

VARIABLES
    participants,   \* first argument of the last seedParticipants call
    bracketSize,    \* second argument of the last seedParticipants call
    placement,      \* value returned by the last seedParticipants call
    bracketResult,  \* value returned by generateBracket on placement.seeded
    pc,             \* position in the pipeline: "idle", "placed", "built"
    call,           \* arguments of the last call of a handicap function
    returned,       \* value that call returned
    sheetsAPI,      \* fields of the GoogleSheetsAPI singleton
    request,        \* the sheets request in progress or last finished
    navigation,     \* fields of the NavigationManager
    appState,       \* window.appState: connected and currentParticipants
    timers,         \* setTimeout(goForward) callbacks that have not fired yet
    handlers        \* where handleConnect and handleLoadEntries are waiting

vars == <<participants, bracketSize, placement, bracketResult, pc, call, returned,
          sheetsAPI, request, navigation, appState, timers, handlers>>

uiVars == <<navigation, appState, timers, handlers>>

\* The state of the draw engines and of the handicap calls.
drawVars == <<participants, bracketSize, placement, bracketResult, pc, call, returned>>

\* The state of the rest of the plugin.
pluginVars == <<sheetsAPI, request>>

\* ------------------------------------------------------------------ bounds
\* Longest participant list passed to seedParticipants.
MaxParticipants ==
    9

\* Math.random() returns one of 0/RandLevels .. (RandLevels-1)/RandLevels.
RandLevels ==
    2

\* A shuffle that calls Math.random() at most MaxShuffleDraws times is
\* explored for every sequence of draws; a longer one (the 73-player example)
\* only for the sequences that repeat one draw.
MaxShuffleDraws ==
    9

\* ------------------------------------------------------- JavaScript values
\* The JavaScript value null (also used for "argument not supplied").
null ==
    [isNull |-> TRUE]

\* An argument that is an array or null: the array with elements items.
arrayOf(items) ==
    [items |-> items]

\* The JavaScript value undefined (a property or array cell that was never set).
undefined ==
    [isUndefined |-> TRUE]

\* A TypeError thrown while a call runs, until a catch block turns it into a
\* result.
TypeError(message) ==
    [thrown |-> TRUE, message |-> message]

isThrown(outcome) ==
    "thrown" \in DOMAIN outcome

\* Truthiness of p.isBye; undefined (field absent) is falsy.
isBye(p) ==
    "isBye" \in DOMAIN p /\ p.isBye

\* array[i]
at(array, i) ==
    array[i + 1]

\* array[i] = v
setAt(array, i, v) ==
    [array EXCEPT ![i + 1] = v]

Min(a, b) ==
    IF a <= b THEN a ELSE b

Max(a, b) ==
    IF a >= b THEN a ELSE b

\* array.slice(start, end) with both indices inside 0..length after clamping
slice(array, start, end) ==
    LET s == Min(Max(start, 0), Len(array))
        e == Min(Max(end, 0), Len(array))
    IN  IF s >= e THEN <<>> ELSE SubSeq(array, s + 1, e)

\* array.slice(start)
sliceFrom(array, start) ==
    slice(array, start, Len(array))

\* Array.from({ length: n }, (_, i) => i)
indexArray(n) ==
    [i \in 1..n |-> i - 1]

\* new Array(n).fill(null)
nullArray(n) ==
    [i \in 1..n |-> null]

\* Slip: the seed is the 0-based cell index instead of index + 1.
withSeedZeroBased(p, s) ==
    [name |-> p.name, availability |-> p.availability, seed |-> s - 1]

\* { ...p, seed: s }
withSeed(p, s) ==
    [name |-> p.name, availability |-> p.availability, seed |-> s]

\* The outcomes of k successive Math.random() calls, as numerators over
\* RandLevels.
RandomDraws(k) ==
    IF k <= MaxShuffleDraws
    THEN [1..k -> 0..(RandLevels - 1)]
    ELSE { [i \in 1..k |-> v] : v \in 0..(RandLevels - 1) }

\* ---------------------------------------------------------------- shuffle
RECURSIVE shuffleLoop(_, _, _)
shuffleLoop(arr, i, rnd) ==
    IF i > 0
    THEN LET j == (Head(rnd) * (i + 1)) \div RandLevels
         IN  shuffleLoop([arr EXCEPT ![i + 1] = at(arr, j), ![j + 1] = at(arr, i)],
                         i - 1, Tail(rnd))
    ELSE arr

\* shuffle(array) when the Math.random() calls return rnd
shuffleWith(array, rnd) ==
    shuffleLoop(array, Len(array) - 1, rnd)

\* Every array shuffle(array) can return.
shuffle(array) ==
    { shuffleWith(array, rnd) : rnd \in RandomDraws(Len(array) - 1) }

createBye ==
    [isBye |-> TRUE, name |-> "BYE", seed |-> null]

\* for (let i = 0; i < bracketSize; i++) if (result[i] === null) result[i] = createBye()
fillNulls(result) ==
    [i \in 1..Len(result) |-> IF result[i] = null THEN createBye ELSE result[i]]

\* -------------------------------------------------- play-in / bye loops
\* Both loops read Len(result) at every iteration so that TLC evaluates the
\* array built so far instead of stacking 64 pending writes.
\* for (const slot of playInSlots): two players per match, while the group lasts.
RECURSIVE placePlayInMatches(_, _, _, _, _)
placePlayInMatches(result, slots, group, idx, offset) ==
    IF slots = <<>> \/ Len(result) = 0
    THEN result
    ELSE LET pos1 == offset + Head(slots) * 2
             pos2 == offset + Head(slots) * 2 + 1
             first == idx < Len(group)
             r1 == IF first THEN setAt(result, pos1, withSeed(at(group, idx), pos1 + 1))
                            ELSE result
             idx1 == IF first THEN idx + 1 ELSE idx
             second == idx1 < Len(group)
             r2 == IF second THEN setAt(r1, pos2, withSeed(at(group, idx1), pos2 + 1))
                             ELSE r1
             idx2 == IF second THEN idx1 + 1 ELSE idx1
         IN  placePlayInMatches(r2, Tail(slots), group, idx2, offset)

\* for (const slot of byeSlots): one player + one BYE per match, then double BYEs.
RECURSIVE placeByeMatches(_, _, _, _, _)
placeByeMatches(result, slots, group, idx, offset) ==
    IF slots = <<>> \/ Len(result) = 0
    THEN result
    ELSE LET pos1 == offset + Head(slots) * 2
             pos2 == offset + Head(slots) * 2 + 1
         IN  IF idx < Len(group)
             THEN placeByeMatches(
                      setAt(setAt(result, pos1, withSeed(at(group, idx), pos1 + 1)),
                            pos2, createBye),
                      Tail(slots), group, idx + 1, offset)
             ELSE placeByeMatches(
                      setAt(setAt(result, pos1, createBye), pos2, createBye),
                      Tail(slots), group, idx, offset)

\* ------------------------------------------ pureRandomPlayInPlacement
\* for (let i = 0; i < shuffled.length && i < round1Matches; i++): player + BYE
RECURSIVE pairWithBye(_, _, _, _, _)
pairWithBye(result, shuffled, shuffledSlots, i, round1Matches) ==
    IF i < Len(shuffled) /\ i < round1Matches
    THEN LET pos1 == at(shuffledSlots, i) * 2
         IN  pairWithBye(
                 setAt(setAt(result, pos1, withSeed(at(shuffled, i), pos1 + 1)),
                       pos1 + 1, createBye),
                 shuffled, shuffledSlots, i + 1, round1Matches)
    ELSE result

\* for (let i = shuffled.length; i < round1Matches; i++): double BYEs
RECURSIVE doubleByes(_, _, _, _)
doubleByes(result, shuffledSlots, i, round1Matches) ==
    IF i < round1Matches
    THEN LET pos1 == at(shuffledSlots, i) * 2
         IN  doubleByes(setAt(setAt(result, pos1, createBye), pos1 + 1, createBye),
                        shuffledSlots, i + 1, round1Matches)
    ELSE result

\* The body of pureRandomPlayInPlacement once its two shuffles have returned
\* shuffled and shuffledSlots.
pureRandomResult(ps, size, playInMatchCount, shuffled, shuffledSlots) ==
    LET round1Matches == size \div 2
        result == nullArray(size)
        placed ==
            IF playInMatchCount <= 0
            THEN doubleByes(
                     pairWithBye(result, shuffled, shuffledSlots, 0, round1Matches),
                     shuffledSlots, Len(shuffled), round1Matches)
            ELSE LET playInParticipantCount == playInMatchCount * 2
                     playInGroup == slice(shuffled, 0, playInParticipantCount)
                     byeGroup == sliceFrom(shuffled, playInParticipantCount)
                     playInSlots == slice(shuffledSlots, 0, playInMatchCount)
                     byeSlots == sliceFrom(shuffledSlots, playInMatchCount)
                 IN  placeByeMatches(
                         placePlayInMatches(result, playInSlots, playInGroup, 0, 0),
                         byeSlots, byeGroup, 0, 0)
    IN  [success |-> TRUE,
         placed |-> fillNulls(placed),
         participantCount |-> Len(ps),
         bracketSize |-> size,
         stats |-> [dayPlayers |-> 0,
                    nightPlayers |-> 0,
                    randomPlacement |-> TRUE,
                    playInMatches |-> playInMatchCount,
                    byeCount |-> size - Len(ps)]]

\* Slip: one play-in match too many is laid out.
pureRandomPlayInPlacementOneMore(ps, size, playInMatchCount) ==
    { pureRandomResult(ps, size, playInMatchCount + 1, shuffled, shuffledSlots) :
        shuffled \in shuffle(ps), shuffledSlots \in shuffle(indexArray(size \div 2)) }

\* Every result pureRandomPlayInPlacement can return.
pureRandomPlayInPlacement(ps, size, playInMatchCount) ==
    { pureRandomResult(ps, size, playInMatchCount, shuffled, shuffledSlots) :
        shuffled \in shuffle(ps), shuffledSlots \in shuffle(indexArray(size \div 2)) }

\* -------------------------------------------------------- placeFullBracket
\* Slip: the filter keeps the participants that do not carry the tag.
withAvailabilitySwapped(ps, tag) ==
    SelectSeq(ps, LAMBDA p : p.availability # tag)

\* participants.forEach(p => { if (p.availability === tag) players.push(p) })
withAvailability(ps, tag) ==
    SelectSeq(ps, LAMBDA p : p.availability = tag)

\* for (let i = 0; i < shuffledGroup.length && i < halfSize; i++)
\*     result[offset + i] = { ...shuffledGroup[i], seed: offset + i + 1 }
RECURSIVE fillHalf(_, _, _, _, _)
fillHalf(result, shuffledGroup, i, halfSize, offset) ==
    IF i < Len(shuffledGroup) /\ i < halfSize
    THEN fillHalf(setAt(result, offset + i, withSeed(at(shuffledGroup, i), offset + i + 1)),
                  shuffledGroup, i + 1, halfSize, offset)
    ELSE result

\* for (let i = halfSize; i < shuffledDay.length; i++)
\*     if (result[overflowCursor] === null) { place; overflowCursor++ }
RECURSIVE dayOverflow(_, _, _, _)
dayOverflow(result, shuffledDay, i, overflowCursor) ==
    IF i < Len(shuffledDay)
    THEN IF overflowCursor < Len(result) /\ at(result, overflowCursor) = null
         THEN dayOverflow(
                  setAt(result, overflowCursor,
                        withSeed(at(shuffledDay, i), overflowCursor + 1)),
                  shuffledDay, i + 1, overflowCursor + 1)
         ELSE dayOverflow(result, shuffledDay, i + 1, overflowCursor)
    ELSE result

\* while (nightOverflowIdx < bracketSize && result[nightOverflowIdx] !== null)
\*     nightOverflowIdx++
RECURSIVE nextEmpty(_, _)
nextEmpty(result, nightOverflowIdx) ==
    IF nightOverflowIdx < Len(result) /\ at(result, nightOverflowIdx) # null
    THEN nextEmpty(result, nightOverflowIdx + 1)
    ELSE nightOverflowIdx

\* for (let i = halfSize; i < shuffledNight.length; i++) { find next empty slot; place }
RECURSIVE nightOverflow(_, _, _, _)
nightOverflow(result, shuffledNight, i, nightOverflowIdx) ==
    IF i < Len(shuffledNight)
    THEN LET idx == nextEmpty(result, nightOverflowIdx)
         IN  IF idx < Len(result)
             THEN nightOverflow(
                      setAt(result, idx, withSeed(at(shuffledNight, i), idx + 1)),
                      shuffledNight, i + 1, idx)
             ELSE nightOverflow(result, shuffledNight, i + 1, idx)
    ELSE result

\* shuffled.map((p, i) => ({ ...p, seed: i + 1 }))
seedByIndex(shuffled) ==
    [i \in 1..Len(shuffled) |-> withSeed(shuffled[i], i)]

\* The no-availability branch of placeFullBracket once shuffle has returned.
fullRandomResult(ps, size, shuffled) ==
    [success |-> TRUE,
     placed |-> seedByIndex(shuffled),
     participantCount |-> Len(ps),
     bracketSize |-> size,
     stats |-> [dayPlayers |-> 0,
                nightPlayers |-> 0,
                playInMatches |-> size \div 2,
                fullBracket |-> TRUE,
                byeCount |-> 0]]

\* The availability branch of placeFullBracket once both shuffles have returned.
fullAvailabilityResult(ps, size, shuffledDay, shuffledNight) ==
    LET halfSize == size \div 2
        top == fillHalf(nullArray(size), shuffledDay, 0, halfSize, 0)
        bottom == fillHalf(top, shuffledNight, 0, halfSize, halfSize)
        overflowCursor == IF Len(shuffledDay) < halfSize THEN Len(shuffledDay) ELSE halfSize
        withDay == dayOverflow(bottom, shuffledDay, halfSize, overflowCursor)
        withNight == nightOverflow(withDay, shuffledNight, halfSize, halfSize)
    IN  [success |-> TRUE,
         placed |-> withNight,
         participantCount |-> Len(ps),
         bracketSize |-> size,
         stats |-> [dayPlayers |-> Len(shuffledDay),
                    nightPlayers |-> Len(shuffledNight),
                    playInMatches |-> size \div 2,
                    fullBracket |-> TRUE,
                    byeCount |-> 0]]

\* Every result placeFullBracket can return.
placeFullBracket(ps, size) ==
    LET dayPlayers == withAvailability(ps, "D")
        nightPlayers == withAvailability(ps, "N")
        hasAvailability == Len(dayPlayers) > 0 \/ Len(nightPlayers) > 0
    IN  IF ~hasAvailability
        THEN { fullRandomResult(ps, size, shuffled) : shuffled \in shuffle(ps) }
        ELSE { fullAvailabilityResult(ps, size, shuffledDay, shuffledNight) :
                 shuffledDay \in shuffle(dayPlayers),
                 shuffledNight \in shuffle(nightPlayers) }

\* ----------------------------------------------------- placeByAvailability
\* Math.round(num / den) for num >= 0, den > 0 (halves round up), in exact
\* arithmetic.  The code rounds playInMatchCount * (dayCount / totalPlayers);
\* for the list lengths and bracket sizes drawn here that product is never
\* half-way between two integers, so floating point gives the same result.
mathRound(num, den) ==
    (2 * num + den) \div (2 * den)

\* Math.ceil(n / 2) for n >= 0
ceilHalf(n) ==
    (n + 1) \div 2

\* Play-in players taken from the Day group after the shortfall adjustment.
actualDayPlayIn(playInMatchCount, dayCount, nightCount, totalPlayers) ==
    LET dayPlayInMatches == mathRound(playInMatchCount * dayCount, totalPlayers)
        nightPlayInMatches == playInMatchCount - dayPlayInMatches
        dayPlayInPlayers == Min(dayPlayInMatches * 2, dayCount)
        nightPlayInPlayers == Min(nightPlayInMatches * 2, nightCount)
        totalPlayInNeeded == playInMatchCount * 2
        shortfall == totalPlayInNeeded - (dayPlayInPlayers + nightPlayInPlayers)
    IN  IF dayPlayInPlayers + nightPlayInPlayers < totalPlayInNeeded
           /\ dayCount - dayPlayInPlayers >= shortfall
        THEN dayPlayInPlayers + shortfall
        ELSE dayPlayInPlayers

\* Play-in players taken from the Night group after the shortfall adjustment.
actualNightPlayIn(playInMatchCount, dayCount, nightCount, totalPlayers) ==
    LET dayPlayInMatches == mathRound(playInMatchCount * dayCount, totalPlayers)
        nightPlayInMatches == playInMatchCount - dayPlayInMatches
        dayPlayInPlayers == Min(dayPlayInMatches * 2, dayCount)
        nightPlayInPlayers == Min(nightPlayInMatches * 2, nightCount)
        totalPlayInNeeded == playInMatchCount * 2
        shortfall == totalPlayInNeeded - (dayPlayInPlayers + nightPlayInPlayers)
    IN  IF dayPlayInPlayers + nightPlayInPlayers < totalPlayInNeeded
           /\ ~(dayCount - dayPlayInPlayers >= shortfall)
           /\ nightCount - nightPlayInPlayers >= shortfall
        THEN nightPlayInPlayers + shortfall
        ELSE nightPlayInPlayers

\* The availability branch of placeByAvailability (partial bracket) once its
\* four shuffles have returned.
availabilityResult(ps, size, shuffledDay, shuffledNight, shuffledDaySlots, shuffledNightSlots) ==
    LET totalPlayers == Len(ps)
        round1Matches == size \div 2
        round2Slots == round1Matches
        playInMatchCount == Max(0, totalPlayers - round2Slots)
        playInParticipantCount == playInMatchCount * 2
        byeToRound2Count == totalPlayers - playInParticipantCount
        dayIn == actualDayPlayIn(playInMatchCount, Len(shuffledDay), Len(shuffledNight),
                                 totalPlayers)
        nightIn == actualNightPlayIn(playInMatchCount, Len(shuffledDay), Len(shuffledNight),
                                     totalPlayers)
        dayPlayInGroup == slice(shuffledDay, 0, dayIn)
        dayByeGroup == sliceFrom(shuffledDay, dayIn)
        nightPlayInGroup == slice(shuffledNight, 0, nightIn)
        nightByeGroup == sliceFrom(shuffledNight, nightIn)
        halfSize == size \div 2
        dayPlayInSlots == slice(shuffledDaySlots, 0, ceilHalf(dayIn))
        dayByeSlots == sliceFrom(shuffledDaySlots, ceilHalf(dayIn))
        nightPlayInSlots == slice(shuffledNightSlots, 0, ceilHalf(nightIn))
        nightByeSlots == sliceFrom(shuffledNightSlots, ceilHalf(nightIn))
        r1 == placePlayInMatches(nullArray(size), dayPlayInSlots, dayPlayInGroup, 0, 0)
        r2 == placeByeMatches(r1, dayByeSlots, dayByeGroup, 0, 0)
        r3 == placePlayInMatches(r2, nightPlayInSlots, nightPlayInGroup, 0, halfSize)
        r4 == placeByeMatches(r3, nightByeSlots, nightByeGroup, 0, halfSize)
    IN  [success |-> TRUE,
         placed |-> fillNulls(r4),
         participantCount |-> Len(ps),
         bracketSize |-> size,
         stats |-> [dayPlayers |-> Len(shuffledDay),
                    nightPlayers |-> Len(shuffledNight),
                    playInMatches |-> playInMatchCount,
                    playInParticipants |-> playInParticipantCount,
                    byeToRound2 |-> byeToRound2Count,
                    dayPlayInMatches |-> Len(dayPlayInSlots),
                    nightPlayInMatches |-> Len(nightPlayInSlots),
                    byeCount |-> size - totalPlayers]]

\* Every result placeByAvailability can return.
placeByAvailability(ps, size) ==
    IF \E i \in 1..Len(ps) : ps[i] = null
    THEN \* participants.forEach(p => p.availability ...) on a null element
         { TypeError("Cannot read properties of null (reading 'availability')") }
    ELSE
    LET totalPlayers == Len(ps)
        round1Matches == size \div 2
        playInMatchCount == Max(0, totalPlayers - round1Matches)
        dayPlayers == withAvailability(ps, "D")
        nightPlayers == withAvailability(ps, "N")
        hasAvailability == Len(dayPlayers) > 0 \/ Len(nightPlayers) > 0
        matchSlots == indexArray(round1Matches \div 2)
    IN  IF totalPlayers = size
        THEN placeFullBracket(ps, size)
        ELSE IF ~hasAvailability
        THEN pureRandomPlayInPlacement(ps, size, playInMatchCount)
        ELSE { availabilityResult(ps, size, shuffledDay, shuffledNight,
                                  shuffledDaySlots, shuffledNightSlots) :
                 shuffledDay \in shuffle(dayPlayers),
                 shuffledNight \in shuffle(nightPlayers),
                 shuffledDaySlots \in shuffle(matchSlots),
                 shuffledNightSlots \in shuffle(matchSlots) }

\* --------------------------------------------------------- seedParticipants
\* Slip: a 4-player bracket is accepted as well.
AllowedBracketSizesWith4 ==
    {4, 8, 16, 32, 64, 128}

\* [8, 16, 32, 64, 128]
AllowedBracketSizes ==
    {8, 16, 32, 64, 128}

\* Every value seedParticipants can return.  arg is null or arrayOf(ps) for a
\* list ps of participant objects; size is a number (0 is the falsy one).
\* Nothing in the try block throws for such arguments, so the catch branch
\* is not taken.
\* Slip: no try/catch around the body, a TypeError leaves the function.
seedParticipantsWithoutCatch(arg, size) ==
    IF arg = null \/ Len(arg.items) = 0
    THEN { [success |-> FALSE, error |-> "No participants to place"] }
    ELSE IF size = 0 \/ size \notin AllowedBracketSizes
    THEN { [success |-> FALSE,
            error |-> "Invalid bracket size. Must be 8, 16, 32, 64, or 128"] }
    ELSE { IF isThrown(result)
           THEN result
           ELSE [success |-> result.success,
                 seeded |-> result.placed,
                 placed |-> result.placed,
                 participantCount |-> result.participantCount,
                 bracketSize |-> result.bracketSize,
                 stats |-> result.stats] : result \in placeByAvailability(arg.items, size) }

\* arg is null or arrayOf(participants), elements being objects or null.
seedParticipants(arg, size) ==
    IF arg = null \/ Len(arg.items) = 0
    THEN { [success |-> FALSE, error |-> "No participants to place"] }
    ELSE IF size = 0 \/ size \notin AllowedBracketSizes
    THEN { [success |-> FALSE,
            error |-> "Invalid bracket size. Must be 8, 16, 32, 64, or 128"] }
    ELSE { IF isThrown(result)
           THEN \* catch (error) { return { success: false, error: error.message } }
                [success |-> FALSE, error |-> result.message]
           ELSE [success |-> result.success,
                 seeded |-> result.placed,
                 placed |-> result.placed,
                 participantCount |-> result.participantCount,
                 bracketSize |-> result.bracketSize,
                 stats |-> result.stats] : result \in placeByAvailability(arg.items, size) }

\* ------------------------------------------------------------ pairingEngine
\* participants.some(p => p && p.isBye)
hasByes(ps) ==
    \E i \in 1..Len(ps) : ps[i] # null /\ isBye(ps[i])

\* The inline BYE literal of assignByes.
byeLiteral ==
    [isBye |-> TRUE, name |-> "BYE", seed |-> null]

assignByes(ps, size) ==
    IF hasByes(ps)
    THEN [i \in 1..size |-> IF i <= Min(Len(ps), size) /\ ps[i] # null
                            THEN ps[i]
                            ELSE byeLiteral]
    ELSE LET actualParticipants == SelectSeq(ps, LAMBDA q : q # null /\ q # undefined)
         IN  IF Len(actualParticipants) = size
             THEN actualParticipants
             ELSE [i \in 1..Max(size, Len(actualParticipants)) |->
                      IF i <= Len(actualParticipants)
                      THEN actualParticipants[i]
                      ELSE byeLiteral]

\* participants[i] || null
orNull(ps, i) ==
    IF i < Len(ps) THEN at(ps, i) ELSE null

\* The match object buildRound1 creates in iteration i.
buildMatch(ps, i) ==
    LET player1 == orNull(ps, i * 2)
        player2 == orNull(ps, i * 2 + 1)
    IN  [matchNumber |-> i + 1,
         player1 |-> player1,
         player2 |-> player2,
         winner |-> IF player1 # null /\ player2 # null /\ isBye(player2)
                    THEN player1
                    ELSE IF player2 # null /\ player1 # null /\ isBye(player1)
                    THEN player2
                    ELSE null]

buildRound1(ps) ==
    [roundNumber |-> 1,
     roundName |-> "Round 1",
     matches |-> [k \in 1..ceilHalf(Len(ps)) |-> buildMatch(ps, k - 1)]]

\* participants.filter(p => !p.isBye).length
countNotBye(ps) ==
    Cardinality({i \in 1..Len(ps) : ~isBye(ps[i])})

\* seededParticipants.filter(p => p !== null).length
countNotNull(ps) ==
    Cardinality({i \in 1..Len(ps) : ps[i] # null})

\* participantsWithByes.filter(p => p && p.isBye).length
countByes(ps) ==
    Cardinality({i \in 1..Len(ps) : ps[i] # null /\ isBye(ps[i])})

\* participants.filter(p => !p.isBye) reads isBye of every cell and throws on
\* a cell that is null or undefined.
buildBracketStructure(ps, size) ==
    IF \E i \in 1..Len(ps) : ps[i] = null \/ ps[i] = undefined
    THEN TypeError("Cannot read properties of undefined (reading 'isBye')")
    ELSE [rounds |-> <<buildRound1(ps)>>,
          bracketSize |-> size,
          participantCount |-> countNotBye(ps)]

\* arg is null or arrayOf(seededParticipants), cells being objects or null.
generateBracket(arg, size) ==
    IF arg = null \/ Len(arg.items) = 0
    THEN [success |-> FALSE, error |-> "No participants provided"]
    ELSE IF size \notin AllowedBracketSizes
    THEN [success |-> FALSE,
          error |-> "Invalid bracket size. Must be 8, 16, 32, 64, or 128"]
    ELSE LET seededParticipants == arg.items
             participantsWithByes == assignByes(seededParticipants, size)
             bracket == buildBracketStructure(participantsWithByes, size)
         IN  IF isThrown(bracket)
             THEN \* catch (error) { return { success: false, error: error.message } }
                  [success |-> FALSE, error |-> bracket.message]
             ELSE [success |-> TRUE,
                   bracket |-> bracket,
                   bracketSize |-> size,
                   participantCount |-> countNotNull(seededParticipants),
                   byeCount |-> countByes(participantsWithByes)]

\* ------------------------------------------------------------------ inputs
\* n copies of tag
tagBlock(n, tag) ==
    [i \in 1..n |-> tag]

\* The participant objects handleGenerateBracket builds: a name and the
\* availability of the entry ("D", "N", or "-" for undefined).
makeParticipants(tags) ==
    [i \in 1..Len(tags) |-> [name |-> "p" \o ToString(i), availability |-> tags[i]]]

\* Participant lists passed to seedParticipants: a missing list, the empty
\* list, and every list of up to MaxParticipants entries made of Day
\* entries, then Night entries, then entries without availability.
ParticipantInputs ==
    {null} \cup
    { arrayOf(makeParticipants(tagBlock(d, "D") \o tagBlock(n, "N") \o tagBlock(u, "-"))) :
        <<d, n, u>> \in { t \in (0..MaxParticipants) \X (0..MaxParticipants)
                                  \X (0..MaxParticipants) :
                            t[1] + t[2] + t[3] <= MaxParticipants } }

\* Bracket sizes passed to seedParticipants: falsy, too small, valid, not a
\* power of two.
BracketSizeInputs ==
    {0, 4, 8, 12}

\* ----------------------------------------------------------------- actions
TypeOK ==
    /\ pc \in {"idle", "placed", "built"}
    /\ call = null \/ "op" \in DOMAIN call

Init ==
    /\ participants = null
    /\ bracketSize = 0
    /\ placement = null
    /\ bracketResult = null
    /\ pc = "idle"
    /\ call = null
    /\ returned = null
    /\ sheetsAPI = [accessToken |-> null, refreshToken |-> null, isAuthenticated |-> FALSE]
    /\ request = null
    /\ navigation = [currentScreen |-> 1, totalScreens |-> 3]
    /\ appState = [connected |-> FALSE, currentParticipants |-> <<>>]
    /\ timers = 0
    /\ handlers = [connect |-> "idle", load |-> "idle"]

\* handleGenerateBracket, step 3: placementResult = seedParticipants(...)
SeedParticipants ==
    /\ pc = "idle"
    /\ \E ps \in ParticipantInputs, size \in BracketSizeInputs :
         \E result \in seedParticipants(ps, size) :
            /\ participants' = ps
            /\ bracketSize' = size
            /\ placement' = result
    /\ pc' = "placed"
    /\ UNCHANGED <<bracketResult, call, returned>>
    /\ UNCHANGED pluginVars
    /\ UNCHANGED uiVars

\* handleGenerateBracket, step 4: generateBracket(placementResult.seeded, bracketSize),
\* reached only when placementResult.success.
GenerateBracket ==
    /\ pc = "placed"
    /\ placement.success
    /\ bracketResult' = generateBracket(arrayOf(placement.seeded), bracketSize)
    /\ pc' = "built"
    /\ UNCHANGED <<participants, bracketSize, placement, call, returned>>
    /\ UNCHANGED pluginVars
    /\ UNCHANGED uiVars

Next ==
    \/ SeedParticipants
    \/ GenerateBracket

Spec ==
    Init /\ [][Next]_vars

\* ------------------------------------------- the documented 73-player draw
\* "Example: 73 players in 128-bracket"
ExamplePlayers ==
    73

ExampleBracketSize ==
    128

\* The Day/Night splits of the example that are explored: all Day, all
\* Night, and every split whose Day group is within ExampleSpread of half
\* the players.
ExampleSpread ==
    20

ExampleDayCounts ==
    {0, ExamplePlayers} \cup
    { d \in 0..ExamplePlayers :
        /\ d >= ExamplePlayers \div 2 - ExampleSpread
        /\ d <= ExamplePlayers \div 2 + 1 + ExampleSpread }

\* 73 participants, all untagged or split into d Day and 73 - d Night.
ExampleInputs ==
    { arrayOf(makeParticipants(tagBlock(ExamplePlayers, "-"))) } \cup
    { arrayOf(makeParticipants(tagBlock(d, "D") \o tagBlock(ExamplePlayers - d, "N"))) :
        d \in ExampleDayCounts }

\* seedParticipants(participants, 128) on one of the example lists.
SeedExample ==
    /\ pc = "idle"
    /\ \E ps \in ExampleInputs :
         \E result \in seedParticipants(ps, ExampleBracketSize) :
            /\ participants' = ps
            /\ placement' = result
    /\ bracketSize' = ExampleBracketSize
    /\ pc' = "placed"
    /\ UNCHANGED <<bracketResult, call, returned>>
    /\ UNCHANGED pluginVars
    /\ UNCHANGED uiVars

NextExample ==
    SeedExample

SpecExample ==
    Init /\ [][NextExample]_vars

\* ------------------------------------------------ teamHandicap.js (tenths)
\* Largest whole handicap passed to the handicap functions.
MaxHandicap ==
    62

\* Plus players: the most negative whole handicap is -PlusHandicaps.
PlusHandicaps ==
    3

\* A JavaScript number where null is possible too (tenths).
num(v) ==
    [value |-> v]

\* object[name]
prop(object, name) ==
    IF name \in DOMAIN object THEN object[name] ELSE undefined

\* a ?? b
coalesce(a, b) ==
    IF a = null \/ a = undefined THEN b ELSE a

\* Math.abs
abs(x) ==
    IF x < 0 THEN -x ELSE x

\* ADJUSTMENT_TABLE: entry d is the factor for the difference d, in tenths.
ADJUSTMENT_TABLE ==
    <<  5,  10,  14,  18,  21,  24,  26,  28,  30,  32,
       34,  36,  38,  40,  42,  44,  46,  48,  50,  52,
       54,  56,  58,  60,  62,  64,  66,  68,  70,  72,
       74,  76,  78,  80,  82,  84,  86,  88,  90,  92,
       94,  96,  98, 100, 102, 104, 106, 108, 109, 110,
      111, 112, 113, 114, 115, 116, 117, 118, 119, 120 >>

\* ADJUSTMENT_TABLE[difference]: the keys are the whole numbers 1..60, so a
\* difference with a fractional part names no property.
tableLookup(table, difference) ==
    IF difference % 10 = 0 /\ (difference \div 10) \in DOMAIN table
    THEN num(table[difference \div 10])
    ELSE undefined

\* Slip: the singles handicap is preferred whenever it exists.
getPlayerEffectiveHandicapSinglesFirst(player) ==
    LET singles == coalesce(coalesce(prop(player, "singlesHCAP"),
                                     prop(player, "singlesHandicap")), null)
        doubles == coalesce(coalesce(prop(player, "doublesHCAP"),
                                     prop(player, "doublesHandicap")), null)
    IN  coalesce(coalesce(singles, doubles), null)

getPlayerEffectiveHandicap(player) ==
    LET singles == coalesce(coalesce(prop(player, "singlesHCAP"),
                                     prop(player, "singlesHandicap")), null)
        doubles == coalesce(coalesce(prop(player, "doublesHCAP"),
                                     prop(player, "doublesHandicap")), null)
    IN  IF singles # null /\ doubles # null
        THEN num(Min(singles.value, doubles.value))
        ELSE coalesce(coalesce(singles, doubles), null)

\* Slip: the difference 0 is looked up in the table like any other.
getAdjustmentFactorNoZero(difference) ==
    IF difference >= 600 THEN 120
    ELSE coalesce(tableLookup(ADJUSTMENT_TABLE, difference), num(120)).value

getAdjustmentFactor(difference) ==
    IF difference = 0 THEN 0
    ELSE IF difference >= 600 THEN 120
    ELSE coalesce(tableLookup(ADJUSTMENT_TABLE, difference), num(120)).value

\* Slip: the adjustment is added to the first player's handicap instead of
\* the better one.
calculateTeamHandicapFromFirst(playerA, playerB) ==
    LET handicapA == getPlayerEffectiveHandicap(playerA)
        handicapB == getPlayerEffectiveHandicap(playerB)
    IN  IF handicapA = null \/ handicapB = null
        THEN [success |-> FALSE,
              error |-> "Missing handicap data for one or both players",
              playerAHandicap |-> handicapA,
              playerBHandicap |-> handicapB]
        ELSE LET difference == abs(handicapA.value - handicapB.value)
                 adjustment == getAdjustmentFactor(difference)
                 betterHandicap == handicapA.value
                 teamHandicap == betterHandicap + adjustment
             IN  [success |-> TRUE,
                  teamHandicap |-> teamHandicap,
                  playerAHandicap |-> handicapA,
                  playerBHandicap |-> handicapB,
                  difference |-> difference,
                  adjustment |-> adjustment,
                  betterHandicap |-> betterHandicap]

calculateTeamHandicap(playerA, playerB) ==
    LET handicapA == getPlayerEffectiveHandicap(playerA)
        handicapB == getPlayerEffectiveHandicap(playerB)
    IN  IF handicapA = null \/ handicapB = null
        THEN [success |-> FALSE,
              error |-> "Missing handicap data for one or both players",
              playerAHandicap |-> handicapA,
              playerBHandicap |-> handicapB]
        ELSE LET difference == abs(handicapA.value - handicapB.value)
                 adjustment == getAdjustmentFactor(difference)
                 betterHandicap == Min(handicapA.value, handicapB.value)
                 teamHandicap == betterHandicap + adjustment
             IN  [success |-> TRUE,
                  teamHandicap |-> teamHandicap,
                  playerAHandicap |-> handicapA,
                  playerBHandicap |-> handicapB,
                  difference |-> difference,
                  adjustment |-> adjustment,
                  betterHandicap |-> betterHandicap]

\* Handicaps the callers pass: whole and half numbers from -PlusHandicaps to
\* MaxHandicap (parseRealTennisHandicap turns "+3" into -3 and keeps the
\* fraction of "30.5"); differences of such numbers are exact in JavaScript.
HandicapNumbers ==
    { 5 * k : k \in (-2 * PlusHandicaps)..(2 * MaxHandicap) }

\* A few handicaps for the players that carry two of them.
PairedHandicaps ==
    {null, num(-20), num(0), num(300), num(305), num(450)}

\* Player objects: { doublesHCAP } as validateAlgorithm and validation.js
\* build them, { singlesHCAP, doublesHCAP } as HandicapDataManager does,
\* { singlesHandicap, doublesHandicap } as enriched entries carry them, and
\* an object with no handicap property.
PlayerInputs ==
    { [doublesHCAP |-> num(v)] : v \in HandicapNumbers } \cup
    { [singlesHCAP |-> s, doublesHCAP |-> d] : s \in PairedHandicaps, d \in PairedHandicaps } \cup
    { [singlesHandicap |-> s, doublesHandicap |-> d] :
        s \in PairedHandicaps, d \in PairedHandicaps } \cup
    { [name |-> "p0"] }

\* One call of calculateTeamHandicap(playerA, playerB); the function keeps no
\* state, so a behaviour is one call.
CalculateTeamHandicap ==
    /\ call = null
    /\ \E playerA \in PlayerInputs, playerB \in PlayerInputs :
         /\ call' = [op |-> "calculateTeamHandicap", playerA |-> playerA, playerB |-> playerB]
         /\ returned' = calculateTeamHandicap(playerA, playerB)
    /\ UNCHANGED <<participants, bracketSize, placement, bracketResult, pc>>
    /\ UNCHANGED pluginVars
    /\ UNCHANGED uiVars

NextTeamHandicap ==
    CalculateTeamHandicap

SpecTeamHandicap ==
    Init /\ [][NextTeamHandicap]_vars

\* -------------------------------------------- handicapRounding.js (tenths)
\* Strings that the code searches are sequences of one-character strings.
UpperCaseLetters ==
    <<"A", "B", "C", "D", "E", "F", "G", "H", "I", "J", "K", "L", "M", "N", "O", "P", "Q", "R", "S", "T", "U", "V", "W", "X", "Y", "Z">>

LowerCaseLetters ==
    <<"a", "b", "c", "d", "e", "f", "g", "h", "i", "j", "k", "l", "m", "n", "o", "p", "q", "r", "s", "t", "u", "v", "w", "x", "y", "z">>

\* String.prototype.toLowerCase
toLowerCase(s) ==
    [i \in 1..Len(s) |->
        IF \E k \in DOMAIN UpperCaseLetters : UpperCaseLetters[k] = s[i]
        THEN LowerCaseLetters[CHOOSE k \in DOMAIN UpperCaseLetters : UpperCaseLetters[k] = s[i]]
        ELSE s[i]]

\* s.includes(key)
includes(s, key) ==
    \E i \in 0..(Len(s) - Len(key)) : \A j \in 1..Len(key) : s[i + j] = key[j]

\* { min, max } of CLASS_BOUNDS
boundsOf(min, max) ==
    [min |-> min, max |-> max]

\* Object.entries(CLASS_BOUNDS), in insertion order.
CLASS_BOUNDS ==
    << [key |-> <<"4", "t", "h">>, bounds |-> boundsOf(num(400), num(490))],
       [key |-> <<"4", "t", "h", " ", "c", "l", "a", "s", "s">>, bounds |-> boundsOf(num(400), num(490))],
       [key |-> <<"3", "r", "d">>, bounds |-> boundsOf(num(300), num(390))],
       [key |-> <<"3", "r", "d", " ", "c", "l", "a", "s", "s">>, bounds |-> boundsOf(num(300), num(390))],
       [key |-> <<"2", "n", "d">>, bounds |-> boundsOf(num(200), num(290))],
       [key |-> <<"2", "n", "d", " ", "c", "l", "a", "s", "s">>, bounds |-> boundsOf(num(200), num(290))],
       [key |-> <<"1", "s", "t">>, bounds |-> boundsOf(null, num(190))],
       [key |-> <<"1", "s", "t", " ", "c", "l", "a", "s", "s">>, bounds |-> boundsOf(null, num(190))],
       [key |-> <<"c", "l", "u", "b">>, bounds |-> null],
       [key |-> <<"c", "l", "u", "b", " ", "c", "h", "a", "m", "p", "i", "o", "n", "s", "h", "i", "p">>, bounds |-> null],
       [key |-> <<"c", "h", "a", "m", "p", "i", "o", "n", "s", "h", "i", "p">>, bounds |-> null],
       [key |-> <<"c", "h", "a", "m", "p">>, bounds |-> null],
       [key |-> <<"c", "h", "a", "m", "p", "s">>, bounds |-> null] >>

getEventClassBounds(eventName) ==
    IF Len(eventName) = 0 THEN null
    ELSE LET lowerName == toLowerCase(eventName)
         IN  IF \/ includes(lowerName, <<"c", "l", "u", "b">>)
                \/ includes(lowerName, <<"c", "h", "a", "m", "p", "i", "o", "n", "s", "h", "i", "p">>)
                \/ includes(lowerName, <<"c", "h", "a", "m", "p">>)
             THEN null
             ELSE LET found == { k \in DOMAIN CLASS_BOUNDS :
                                   /\ CLASS_BOUNDS[k].bounds # null
                                   /\ includes(lowerName, CLASS_BOUNDS[k].key) }
                  IN  IF found = {} THEN null
                      ELSE CLASS_BOUNDS[CHOOSE k \in found : \A m \in found : k <= m].bounds

\* Slip: handicaps of 19 and below are clamped like the others.
roundHandicapForClassWithoutFloor(handicap, bounds) ==
    IF bounds = null THEN handicap
    ELSE IF handicap < 0 THEN handicap
    ELSE LET capped == IF bounds.max # null /\ handicap > bounds.max.value
                       THEN bounds.max.value ELSE handicap
         IN  IF bounds.min # null /\ capped < bounds.min.value
             THEN bounds.min.value ELSE capped

roundHandicapForClass(handicap, bounds) ==
    IF bounds = null THEN handicap
    ELSE IF handicap < 0 THEN handicap
    ELSE IF handicap <= 190 THEN handicap
    ELSE LET capped == IF bounds.max # null /\ handicap > bounds.max.value
                       THEN bounds.max.value ELSE handicap
         IN  IF bounds.min # null /\ capped < bounds.min.value
             THEN bounds.min.value ELSE capped

\* Event names: an optional prefix, an optional class label and an optional
\* suffix, "" included.
EventPrefixes ==
    { <<>>, <<"C", "l", "u", "b", " ">>, <<"S", "p", "r", "i", "n", "g", " ">> }

EventLabels ==
    { <<>>, <<"1", "s", "t">>, <<"2", "n", "d">>, <<"3", "r", "d">>, <<"4", "t", "h">>, <<"3", "R", "D">>, <<"O", "p", "e", "n">>, <<"4", "t", "h", "/", "3", "r", "d">>,
      <<"C", "h", "a", "m", "p", "i", "o", "n", "s", "h", "i", "p">> }

EventSuffixes ==
    { <<>>, <<" ", "C", "l", "a", "s", "s">>, <<" ", "C", "L", "A", "S", "S">>, <<" ", "C", "l", "a", "s", "s", " ", "C", "h", "a", "m", "p", "s">>, <<" ", "C", "h", "a", "m", "p", "i", "o", "n", "s", "h", "i", "p">>, <<" ", "D", "o", "u", "b", "l", "e", "s">> }

EventNames ==
    { a \o b \o c : a \in EventPrefixes, b \in EventLabels, c \in EventSuffixes }

\* processHandicapForDisplay, lines 129-130: the class bounds of the event
\* and the handicap rounded into them.  One call per behaviour.
RoundHandicap ==
    /\ call = null
    /\ \E handicap \in HandicapNumbers, eventName \in EventNames :
         LET bounds == getEventClassBounds(eventName)
         IN  /\ call' = [op |-> "roundHandicap", handicap |-> handicap,
                         eventName |-> eventName]
             /\ returned' = [bounds |-> bounds,
                             rounded |-> roundHandicapForClass(handicap, bounds)]
    /\ UNCHANGED <<participants, bracketSize, placement, bracketResult, pc>>
    /\ UNCHANGED pluginVars
    /\ UNCHANGED uiVars

NextRounding ==
    RoundHandicap

SpecRounding ==
    Init /\ [][NextRounding]_vars

\* ------------------------------------------- handleGenerateBracket pipeline
\* Longest participant list the pipeline is run on.
MaxPipelineParticipants ==
    6

\* Math.ceil(Math.log2(n)) for n >= 1
RECURSIVE ceilLog2(_)
ceilLog2(n) ==
    IF n <= 1 THEN 0 ELSE 1 + ceilLog2((n + 1) \div 2)

\* Math.pow(2, e)
RECURSIVE pow2(_)
pow2(e) ==
    IF e = 0 THEN 1 ELSE 2 * pow2(e - 1)

\* Math.pow(2, Math.ceil(Math.log2(participants.length)))
computedBracketSize(n) ==
    pow2(ceilLog2(n))

\* The non-empty lists appState.currentParticipants is mapped to; the empty
\* list makes the handler return before step 3.
PipelineInputs ==
    { ps \in ParticipantInputs \ {null} :
        Len(ps.items) >= 1 /\ Len(ps.items) <= MaxPipelineParticipants }

\* handleGenerateBracket, steps 2 and 3: the bracket size is computed from the
\* participant count and seedParticipants is called with it.
PlaceComputedSize ==
    /\ pc = "idle"
    /\ \E ps \in PipelineInputs :
         \E result \in seedParticipants(ps, computedBracketSize(Len(ps.items))) :
            /\ participants' = ps
            /\ bracketSize' = computedBracketSize(Len(ps.items))
            /\ placement' = result
    /\ pc' = "placed"
    /\ UNCHANGED <<bracketResult, call, returned>>
    /\ UNCHANGED pluginVars
    /\ UNCHANGED uiVars

NextPipeline ==
    \/ PlaceComputedSize
    \/ GenerateBracket

SpecPipeline ==
    Init /\ [][NextPipeline]_vars

\* ------------------------------------------------- calls with unchecked input
\* Longest list passed to the engines without any check by the caller.
MaxUncheckedList ==
    4

\* Element i of such a list: null, or a participant with the given tag.
uncheckedParticipant(i, tag) ==
    IF tag = "null" THEN null
    ELSE [name |-> "p" \o ToString(i), availability |-> tag]

\* Participant lists a caller of the exported seedParticipants can pass: a
\* missing list, the empty list, and lists whose elements are participants or
\* null.
UncheckedParticipantInputs ==
    {null} \cup
    { arrayOf([i \in 1..n |-> uncheckedParticipant(i, tags[i])]) :
        <<n, tags>> \in UNION { {n} \X [1..n -> {"null", "D", "N", "-"}] :
                                  n \in 0..MaxUncheckedList } }

\* Cell i of a slot array: null, never set, a BYE, or a seeded participant.
uncheckedCell(i, kind) ==
    IF kind = "null" THEN null
    ELSE IF kind = "undefined" THEN undefined
    ELSE IF kind = "bye" THEN createBye
    ELSE [name |-> "p" \o ToString(i), availability |-> "-", seed |-> i]

\* Slot arrays a caller of the exported generateBracket can pass.
UncheckedSeededInputs ==
    {null} \cup
    { arrayOf([i \in 1..n |-> uncheckedCell(i, kinds[i])]) :
        <<n, kinds>> \in UNION { {n} \X [1..n -> {"null", "undefined", "bye", "real"}] :
                                   n \in 0..MaxUncheckedList } }

\* seedParticipants(participants, bracketSize) called with any arguments.
SeedUnchecked ==
    /\ pc = "idle"
    /\ \E ps \in UncheckedParticipantInputs, size \in BracketSizeInputs :
         \E result \in seedParticipants(ps, size) :
            /\ participants' = ps
            /\ bracketSize' = size
            /\ placement' = result
    /\ pc' = "placed"
    /\ UNCHANGED <<bracketResult, call, returned>>
    /\ UNCHANGED pluginVars
    /\ UNCHANGED uiVars

\* generateBracket(seededParticipants, bracketSize) called with any arguments.
GenerateUnchecked ==
    /\ pc = "idle"
    /\ \E cells \in UncheckedSeededInputs, size \in BracketSizeInputs :
         /\ participants' = cells
         /\ bracketSize' = size
         /\ bracketResult' = generateBracket(cells, size)
    /\ pc' = "built"
    /\ UNCHANGED <<placement, call, returned>>
    /\ UNCHANGED pluginVars
    /\ UNCHANGED uiVars

NextUnchecked ==
    \/ SeedUnchecked
    \/ GenerateUnchecked

SpecUnchecked ==
    Init /\ [][NextUnchecked]_vars

\* ------------------------------------------------------------ sheetsAPI.js
\* Number of distinct access tokens the token endpoint hands out.
MaxTokens ==
    2

\* An access or refresh token.
token(n) ==
    [token |-> n]

\* !!value for a token field: null and undefined are falsy.
truthy(value) ==
    value # null /\ value # undefined

\* Values of data.access_token / data.refresh_token in a token response:
\* a token, or undefined when the field is missing.
TokenValues ==
    {undefined} \cup { token(n) : n \in 1..MaxTokens }

\* Values a saved token file holds for a token: a token or null.
SavedTokenValues ==
    {null} \cup { token(n) : n \in 1..MaxTokens }

Methods ==
    {"getSheetData", "listSpreadsheets", "getSpreadsheetInfo"}

\* What the server can answer to the GET of a request: 200 with a body the
\* method can read, 200 with a body that makes it throw, 401, another error
\* status, or no answer at all (fetch rejects).
FetchResponses ==
    {"ok", "malformed", "401", "error", "networkError"}

\* What the token endpoint can answer to a refresh: 200 with or without
\* access_token, an error status, or no answer at all.
RefreshResponses ==
    {"ok", "error", "networkError"}

\* { success: false, error: error.message }, built by the catch block
failure(message) ==
    [success |-> FALSE, error |-> message]

\* The promise of the call is rejected: the error left the method.
rejected(message) ==
    [rejected |-> TRUE, error |-> message]

\* The request record of a call of method, _retried as given, about to run
\* the authentication guard and the fetch; fetches and refreshes count the
\* GETs sent and the refresh POSTs sent by the call so far.
running(method, retried, fetches, refreshes) ==
    [method |-> method, retried |-> retried, at |-> "fetch",
     fetches |-> fetches, refreshes |-> refreshes, outcome |-> null]

\* The request record of a call that has returned outcome.
finished(req, outcome) ==
    [req EXCEPT !.at = "done", !.outcome = outcome]

\* The guard at the head of each method, before the try block:
\* if (!this.isAuthenticated || !this.accessToken) throw ...
enter(api, req) ==
    IF ~api.isAuthenticated \/ ~truthy(api.accessToken)
    THEN finished(req, rejected("Not authenticated with Google Sheets"))
    ELSE req

\* Slip: the _retried flag is not consulted, every 401 starts a refresh.
refreshOn401Always(status, retried) ==
    status = "401"

\* response.status === 401 && !_retried
refreshOn401(status, retried) ==
    status = "401" /\ ~retried

\* No call of a request method is between its start and its return.
noCallRunning ==
    IF request = null THEN TRUE ELSE request.at = "done"

\* The call in progress is suspended at the await of its fetch or of the
\* refresh POST.
awaiting(what) ==
    IF request = null THEN FALSE ELSE request.at = what

\* exchangeCodeForTokens with a 200 response: both tokens are taken from the
\* response as they come.
ExchangeCodeForTokens ==
    /\ noCallRunning
    /\ \E access \in TokenValues, refresh \in TokenValues :
         sheetsAPI' = [accessToken |-> access, refreshToken |-> refresh,
                       isAuthenticated |-> TRUE]
    /\ UNCHANGED request
    /\ UNCHANGED drawVars
    /\ UNCHANGED uiVars

\* restoreTokens(savedData)
RestoreTokens ==
    /\ noCallRunning
    /\ \E access \in SavedTokenValues, refresh \in SavedTokenValues :
         sheetsAPI' = [accessToken |-> access, refreshToken |-> refresh,
                       isAuthenticated |-> truthy(access)]
    /\ UNCHANGED request
    /\ UNCHANGED drawVars
    /\ UNCHANGED uiVars

\* A caller invokes one of the three request methods.
StartRequest ==
    /\ noCallRunning
    /\ \E method \in Methods :
         request' = enter(sheetsAPI, running(method, FALSE, 0, 0))
    /\ UNCHANGED sheetsAPI
    /\ UNCHANGED drawVars
    /\ UNCHANGED uiVars

\* The awaited fetch of the request settles.
FetchSettles ==
    /\ awaiting("fetch")
    /\ \E response \in FetchResponses :
         LET sent == [request EXCEPT !.fetches = @ + 1]
         IN  IF response = "networkError"
             THEN /\ request' = finished(sent, failure("Network request failed"))
                  /\ UNCHANGED sheetsAPI
             ELSE IF refreshOn401(response, request.retried)
             THEN IF ~truthy(sheetsAPI.refreshToken)
                  THEN \* refreshAccessToken throws before its try block
                       /\ request' = finished(sent, failure("No refresh token available"))
                       /\ UNCHANGED sheetsAPI
                  ELSE /\ request' = [sent EXCEPT !.at = "refresh"]
                       /\ UNCHANGED sheetsAPI
             ELSE IF response = "401" /\ request.retried
             THEN /\ sheetsAPI' = [sheetsAPI EXCEPT !.isAuthenticated = FALSE]
                  /\ request' = finished(sent,
                         failure("Authentication failed after refresh. Please reconnect."))
             ELSE IF response = "ok"
             THEN /\ request' = finished(sent, [success |-> TRUE])
                  /\ UNCHANGED sheetsAPI
             ELSE /\ request' = finished(sent, failure("Failed to fetch"))
                  /\ UNCHANGED sheetsAPI
    /\ UNCHANGED drawVars
    /\ UNCHANGED uiVars

\* The awaited POST of refreshAccessToken settles.
RefreshSettles ==
    /\ awaiting("refresh")
    /\ \E response \in RefreshResponses :
         LET sent == [request EXCEPT !.refreshes = @ + 1]
         IN  IF response = "ok"
             THEN \E access \in TokenValues :
                    LET api == [sheetsAPI EXCEPT !.accessToken = access]
                    IN  /\ sheetsAPI' = api
                        /\ request' = enter(api, running(sent.method, TRUE,
                                                         sent.fetches, sent.refreshes))
             ELSE /\ sheetsAPI' = [sheetsAPI EXCEPT !.isAuthenticated = FALSE]
                  /\ request' = finished(sent,
                         failure("Session expired. Please reconnect to Google Sheets."))
    /\ UNCHANGED drawVars
    /\ UNCHANGED uiVars

NextSheets ==
    \/ ExchangeCodeForTokens
    \/ RestoreTokens
    \/ StartRequest
    \/ FetchSettles
    \/ RefreshSettles

SpecSheets ==
    Init /\ [][NextSheets]_vars

\* ----------------------------------------------------------- validation.js
\* Longest entry list passed to validateEntries.
MaxEntries ==
    5

\* String.prototype.trim on a sequence of characters
RECURSIVE trim(_)
trim(s) ==
    IF s = <<>> THEN s
    ELSE IF Head(s) = " " THEN trim(Tail(s))
    ELSE IF s[Len(s)] = " " THEN trim(SubSeq(s, 1, Len(s) - 1))
    ELSE s

\* entry.name || entry.playerName; the empty sequence stands for every falsy
\* outcome ('' and undefined), which the code never tells apart.
playerNameOf(entry) ==
    IF "name" \in DOMAIN entry /\ entry.name # <<>> THEN entry.name
    ELSE IF "playerName" \in DOMAIN entry THEN entry.playerName
    ELSE <<>>

\* validateHandicapRange(handicap, event): the list of its error message,
\* empty when it returns null.  Messages leave out the interpolated handicap.
validateHandicapRange(handicap, event) ==
    LET eventName == toLowerCase(event.name)
        has(word) == includes(eventName, word)
        courtTennis ==
            IF ~has(<<"c", "o", "u", "r", "t", " ", "t", "e", "n", "n", "i", "s">>) THEN <<>>
            ELSE IF has(<<"f", "i", "r", "s", "t", " ", "c", "l", "a", "s", "s">>)
            THEN IF handicap < 0 \/ handicap > 100
                 THEN <<"Handicap out of range for First Class (0-10)">> ELSE <<>>
            ELSE IF has(<<"c", "l", "a", "s", "s", " ", "1">>)
            THEN IF handicap < 100 \/ handicap > 200
                 THEN <<"Handicap out of range for Class 1 (10-20)">> ELSE <<>>
            ELSE IF has(<<"c", "l", "a", "s", "s", " ", "2">>)
            THEN IF handicap < 200 \/ handicap > 300
                 THEN <<"Handicap out of range for Class 2 (20-30)">> ELSE <<>>
            ELSE IF has(<<"c", "l", "a", "s", "s", " ", "3">>)
            THEN IF handicap < 300 \/ handicap > 400
                 THEN <<"Handicap out of range for Class 3 (30-40)">> ELSE <<>>
            ELSE IF has(<<"c", "l", "a", "s", "s", " ", "4">>)
            THEN IF handicap < 400 \/ handicap > 500
                 THEN <<"Handicap out of range for Class 4 (40-50)">> ELSE <<>>
            ELSE IF has(<<"c", "l", "a", "s", "s", " ", "5">>)
            THEN IF handicap < 500
                 THEN <<"Handicap out of range for Class 5 (50+)">> ELSE <<>>
            ELSE <<>>
        racquets ==
            IF ~has(<<"r", "a", "c", "q", "u", "e", "t", "s">>) THEN <<>>
            ELSE IF has(<<"c", "h", "a", "m", "p", "i", "o", "n", "s", "h", "i", "p">>)
            THEN IF handicap < 0 \/ handicap > 150
                 THEN <<"Handicap out of range for Championship (0-15)">> ELSE <<>>
            ELSE IF has(<<"c", "l", "a", "s", "s", " ", "1">>)
            THEN IF handicap < 150 \/ handicap > 300
                 THEN <<"Handicap out of range for Class 1 (15-30)">> ELSE <<>>
            ELSE IF has(<<"c", "l", "a", "s", "s", " ", "2">>)
            THEN IF handicap < 300 \/ handicap > 450
                 THEN <<"Handicap out of range for Class 2 (30-45)">> ELSE <<>>
            ELSE IF has(<<"c", "l", "a", "s", "s", " ", "3">>)
            THEN IF handicap < 450
                 THEN <<"Handicap out of range for Class 3 (45+)">> ELSE <<>>
            ELSE <<>>
    IN  \* the first return that is reached wins
        IF courtTennis # <<>> THEN courtTennis ELSE racquets

\* validateSingleEntry(entry, event, previousWinners): the error messages.
validateSingleEntry(entry, event, previousWinners) ==
    LET playerName == playerNameOf(entry)
        eventName == toLowerCase(event.name)
        singles == includes(eventName, <<"s", "i", "n", "g", "l", "e", "s">>)
        doubles == includes(eventName, <<"d", "o", "u", "b", "l", "e", "s">>)
        missingName ==
            IF playerName = <<>> \/ trim(playerName) = <<>>
            THEN <<"Missing player name">> ELSE <<>>
        handicap ==
            IF singles THEN prop(entry, "singlesHandicap") ELSE prop(entry, "doublesHandicap")
        handicapErrors ==
            IF event.sport = "court-tennis" /\ (singles \/ doubles)
            THEN IF handicap = null \/ handicap = undefined
                 THEN <<"Missing handicap data">>
                 ELSE validateHandicapRange(handicap.value, event)
            ELSE <<>>
        wonBefore ==
            IF /\ Len(previousWinners) > 0
               /\ playerName # <<>>
               /\ \E w \in 1..Len(previousWinners) :
                     trim(toLowerCase(previousWinners[w])) = trim(toLowerCase(playerName))
            THEN <<"Player has previously won this draw and cannot re-enter">> ELSE <<>>
        finalsNight ==
            IF "finalsNightAvailable" \in DOMAIN entry /\ entry.finalsNightAvailable = FALSE
            THEN <<"Player marked as unavailable for finals night">> ELSE <<>>
    IN  missingName \o handicapErrors \o wonBefore \o finalsNight

\* The key checkMaxEntriesPerPlayer counts an entry under.
countKey(entry) ==
    trim(toLowerCase(playerNameOf(entry)))

\* checkMaxEntriesPerPlayer(entries): one { playerName, count } per counted
\* name with more than 4 entries, in the order the names first appear.
checkMaxEntriesPerPlayer(entries) ==
    LET named(i) == playerNameOf(entries[i]) # <<>>
        count(i) == Cardinality({k \in 1..Len(entries) :
                                    named(k) /\ countKey(entries[k]) = countKey(entries[i])})
        firsts == SelectSeq([i \in 1..Len(entries) |-> i],
                            LAMBDA i : /\ named(i)
                                       /\ \A k \in 1..(i - 1) :
                                             ~(named(k) /\ countKey(entries[k]) = countKey(entries[i]))
                                       /\ count(i) > 4)
    IN  [f \in 1..Len(firsts) |->
            [playerName |-> countKey(entries[firsts[f]]), count |-> count(firsts[f])]]

\* The error object validateDoublesPartners pushes for entry index, or none.
partnerErrorsOf(entry, index) ==
    LET playerName == playerNameOf(entry)
        playerHandicap == prop(entry, "handicap")
        partnerHandicap == prop(entry, "partnerHandicap")
        partnerName == IF "partnerName" \in DOMAIN entry THEN entry.partnerName ELSE <<>>
    IN  IF partnerName = <<>> \/ playerName = <<>>
        THEN <<>>
        ELSE IF ~("eventName" \in DOMAIN entry /\ includes(entry.eventName, <<"1", "2", "0">>))
        THEN <<>>
        ELSE IF playerHandicap \in {null, undefined} \/ partnerHandicap \in {null, undefined}
        THEN <<>>
        ELSE LET teamResult == calculateTeamHandicap(
                                   [handicap |-> playerHandicap, doublesHCAP |-> playerHandicap],
                                   [handicap |-> partnerHandicap, doublesHCAP |-> partnerHandicap])
             IN  IF teamResult.success /\ teamResult.teamHandicap > 1200
                 THEN << [entryIndex |-> index,
                          playerName |-> trim(toLowerCase(playerName)),
                          errors |-> <<"Team handicap exceeds 120 limit">>] >>
                 ELSE <<>>

\* validateDoublesPartners(entries): the error objects, in entry order.
RECURSIVE validateDoublesPartnersFrom(_, _)
validateDoublesPartnersFrom(entries, i) ==
    IF i > Len(entries) THEN <<>>
    ELSE partnerErrorsOf(entries[i], i - 1) \o validateDoublesPartnersFrom(entries, i + 1)

validateDoublesPartners(entries) ==
    validateDoublesPartnersFrom(entries, 1)

\* The first loop of validateEntries: one error object per entry whose
\* validateSingleEntry list is not empty.
RECURSIVE singleEntryErrorsFrom(_, _, _, _)
singleEntryErrorsFrom(entries, event, previousWinners, i) ==
    IF i > Len(entries) THEN <<>>
    ELSE LET entryErrors == validateSingleEntry(entries[i], event, previousWinners)
         IN  (IF Len(entryErrors) > 0
              THEN << [entryIndex |-> i - 1,
                       playerName |-> playerNameOf(entries[i]),
                       errors |-> entryErrors] >>
              ELSE <<>>)
             \o singleEntryErrorsFrom(entries, event, previousWinners, i + 1)

\* validateEntries(entries, event, previousWinners)
validateEntries(entries, event, previousWinners) ==
    LET entryErrors == singleEntryErrorsFrom(entries, event, previousWinners, 1)
        playerEntryCount == checkMaxEntriesPerPlayer(entries)
        countErrors ==
            [c \in 1..Len(playerEntryCount) |->
                [playerName |-> playerEntryCount[c].playerName,
                 count |-> playerEntryCount[c].count,
                 errors |-> <<"Player has too many entries (maximum 4 allowed)">>]]
        partnerErrors ==
            IF includes(toLowerCase(event.name), <<"d", "o", "u", "b", "l", "e", "s">>)
            THEN validateDoublesPartners(entries) ELSE <<>>
        errors == entryErrors \o countErrors \o partnerErrors
    IN  [valid |-> Len(errors) = 0,
         errors |-> errors,
         warnings |-> <<>>,
         totalEntries |-> Len(entries),
         validEntries |-> Len(entries) - Len(errors)]

\* The events validateEntries is called for: { name, type, sport }.
EventInputs ==
    { [name |-> <<"1", "2", "0", " ", "D", "o", "u", "b", "l", "e", "s">>, type |-> "singles", sport |-> "court-tennis"],
      [name |-> <<"C", "o", "u", "r", "t", " ", "T", "e", "n", "n", "i", "s", " ", "C", "l", "a", "s", "s", " ", "2", " ", "S", "i", "n", "g", "l", "e", "s">>, type |-> "singles", sport |-> "court-tennis"],
      [name |-> <<"S", "q", "u", "a", "s", "h", " ", "D", "o", "u", "b", "l", "e", "s">>, type |-> "singles", sport |-> "general"] }

\* The entries of one event's sheet, as formParser.js and enrichWithHandicap
\* leave them (eventName is the tab's name): a clean team, the same player
\* unavailable for finals night, a team above the 120 limit, that team
\* unavailable for finals night, and a row without a name or handicaps.
EntryInputs(eventName) ==
    { [playerName |-> <<"A", "n", "n">>, partnerName |-> <<"B", "o", "b">>, eventName |-> eventName,
       handicap |-> num(250), partnerHandicap |-> num(300),
       singlesHandicap |-> num(250), doublesHandicap |-> num(250)],
      [playerName |-> <<" ", "A", "N", "N", " ">>, partnerName |-> <<"B", "o", "b">>, eventName |-> eventName,
       handicap |-> num(250), partnerHandicap |-> num(300),
       singlesHandicap |-> num(250), doublesHandicap |-> num(250),
       finalsNightAvailable |-> FALSE],
      [playerName |-> <<"C", "y">>, partnerName |-> <<"D", "i">>, eventName |-> eventName,
       handicap |-> num(1250), partnerHandicap |-> num(1300),
       singlesHandicap |-> num(350), doublesHandicap |-> num(1250)],
      [playerName |-> <<"C", "y">>, partnerName |-> <<"D", "i">>, eventName |-> eventName,
       handicap |-> num(1250), partnerHandicap |-> num(1300),
       singlesHandicap |-> num(350), doublesHandicap |-> num(1250),
       finalsNightAvailable |-> FALSE],
      [playerName |-> <<>>, partnerName |-> <<>>, eventName |-> eventName,
       handicap |-> null, partnerHandicap |-> null,
       singlesHandicap |-> null, doublesHandicap |-> null] }

\* Every entry list of at most MaxEntries entries.
EntryLists(eventName) ==
    UNION { [1..n -> EntryInputs(eventName)] : n \in 0..MaxEntries }

\* One call of validateEntries(entries, event), as displayValidationWarnings
\* makes it (no previous winners); the function keeps no state, so a
\* behaviour is one call.
ValidateEntries ==
    /\ call = null
    /\ \E event \in EventInputs :
         \E entries \in EntryLists(event.name) :
            /\ call' = [op |-> "validateEntries", entries |-> entries, event |-> event]
            /\ returned' = validateEntries(entries, event, <<>>)
    /\ UNCHANGED <<participants, bracketSize, placement, bracketResult, pc>>
    /\ UNCHANGED pluginVars
    /\ UNCHANGED uiVars

NextValidation ==
    ValidateEntries

SpecValidation ==
    Init /\ [][NextValidation]_vars

\* ------------------------------------------------------ NavigationManager
\* Most participants one event tab loads.
MaxLoaded ==
    2

\* Most auto-advance timeouts pending at once.
MaxTimers ==
    2

\* canProceedFromConnection()
canProceedFromConnection(app) ==
    app.connected

\* canProceedFromEventSelection()
canProceedFromEventSelection(app) ==
    Len(app.currentParticipants) > 0

\* screenConfig[screen].canProceed()
canProceed(screen, app) ==
    IF screen = 1 THEN canProceedFromConnection(app)
    ELSE IF screen = 2 THEN canProceedFromEventSelection(app)
    ELSE TRUE

\* Slip: the canProceed check of the current screen is skipped.
goForwardUnchecked(nav, app) ==
    IF nav.currentScreen < nav.totalScreens
    THEN [nav EXCEPT !.currentScreen = @ + 1]
    ELSE nav

\* goForward(): the NavigationManager's fields afterwards.
goForward(nav, app) ==
    IF ~canProceed(nav.currentScreen, app) THEN nav
    ELSE IF nav.currentScreen < nav.totalScreens
    THEN [nav EXCEPT !.currentScreen = @ + 1]
    ELSE nav

\* goBack(): the NavigationManager's fields afterwards.
goBack(nav) ==
    IF nav.currentScreen > 1
    THEN [nav EXCEPT !.currentScreen = @ - 1]
    ELSE nav

\* setConnectedState(connected)
setConnectedState(app, connected) ==
    [app EXCEPT !.connected = connected]

\* What listSpreadsheets can settle with in loadAndPopulateWorkbooks.
ListOutcomes ==
    {"failed", "none", "found", "thrown"}

\* How handleLoadEntries can end after its fetch settles.
LoadOutcomes ==
    {"fetchFailed", "parseFailed", "handicapsMissing", "loaded", "thrown"}

\* The lists appState.currentParticipants can become.
LoadedParticipants ==
    { [i \in 1..n |-> i] : n \in 0..MaxLoaded }

\* The click handler of the forward button.
ClickForward ==
    /\ navigation' = goForward(navigation, appState)
    /\ call' = [op |-> "goForward", by |-> "click", from |-> navigation.currentScreen]
    /\ UNCHANGED <<appState, timers, handlers>>
    /\ UNCHANGED <<participants, bracketSize, placement, bracketResult, pc, returned>>
    /\ UNCHANGED pluginVars

\* The click handler of the back button.
ClickBack ==
    /\ navigation' = goBack(navigation)
    /\ call' = [op |-> "goBack", by |-> "click", from |-> navigation.currentScreen]
    /\ UNCHANGED <<appState, timers, handlers>>
    /\ UNCHANGED <<participants, bracketSize, placement, bracketResult, pc, returned>>
    /\ UNCHANGED pluginVars

\* A timeout set by loadAndPopulateWorkbooks or handleLoadEntries fires.
TimerFires ==
    /\ timers > 0
    /\ timers' = timers - 1
    /\ navigation' = goForward(navigation, appState)
    /\ call' = [op |-> "goForward", by |-> "timer", from |-> navigation.currentScreen]
    /\ UNCHANGED <<appState, handlers>>
    /\ UNCHANGED <<participants, bracketSize, placement, bracketResult, pc, returned>>
    /\ UNCHANGED pluginVars

\* handleConnect() up to the await of listSpreadsheets: the connection state
\* is reset, and the authentication steps either end the handler or reach
\* loadAndPopulateWorkbooks.
HandleConnect ==
    /\ handlers.connect = "idle"
    /\ appState' = setConnectedState(appState, FALSE)
    /\ \E authenticated \in BOOLEAN :
         handlers' = [handlers EXCEPT !.connect = IF authenticated THEN "listing" ELSE "idle"]
    /\ UNCHANGED <<navigation, timers>>
    /\ UNCHANGED drawVars
    /\ UNCHANGED pluginVars

\* loadAndPopulateWorkbooks() after listSpreadsheets settles, up to the
\* await of loadSavedHandicapData.
ListSettles ==
    /\ handlers.connect = "listing"
    /\ \E outcome \in ListOutcomes :
         /\ appState' = IF outcome = "found" THEN setConnectedState(appState, TRUE)
                        ELSE IF outcome = "failed" THEN appState
                        ELSE setConnectedState(appState, FALSE)
         /\ handlers' = [handlers EXCEPT
                            !.connect = IF outcome = "found" THEN "handicaps" ELSE "idle"]
    /\ UNCHANGED <<navigation, timers>>
    /\ UNCHANGED drawVars
    /\ UNCHANGED pluginVars

\* loadAndPopulateWorkbooks() after loadSavedHandicapData settles: spreadsheets
\* were found, so the auto-advance is scheduled.
HandicapsSettle ==
    /\ handlers.connect = "handicaps"
    /\ timers < MaxTimers
    /\ timers' = timers + 1
    /\ handlers' = [handlers EXCEPT !.connect = "idle"]
    /\ UNCHANGED <<navigation, appState>>
    /\ UNCHANGED drawVars
    /\ UNCHANGED pluginVars

\* handleLoadEntries() up to the await of getSheetData; without a selected
\* workbook and tab it returns at once.
HandleLoadEntries ==
    /\ handlers.load = "idle"
    /\ \E selected \in BOOLEAN :
         handlers' = [handlers EXCEPT !.load = IF selected THEN "fetching" ELSE "idle"]
    /\ UNCHANGED <<navigation, appState, timers>>
    /\ UNCHANGED drawVars
    /\ UNCHANGED pluginVars

\* handleLoadEntries() after getSheetData settles: only the path that sets
\* currentParticipants schedules the auto-advance.
LoadSettles ==
    /\ handlers.load = "fetching"
    /\ handlers' = [handlers EXCEPT !.load = "idle"]
    /\ \E outcome \in LoadOutcomes :
         IF outcome = "loaded"
         THEN /\ timers < MaxTimers
              /\ timers' = timers + 1
              /\ \E loaded \in LoadedParticipants :
                    appState' = [appState EXCEPT !.currentParticipants = loaded]
         ELSE UNCHANGED <<appState, timers>>
    /\ UNCHANGED navigation
    /\ UNCHANGED drawVars
    /\ UNCHANGED pluginVars

NextNavigation ==
    \/ ClickForward
    \/ ClickBack
    \/ TimerFires
    \/ HandleConnect
    \/ ListSettles
    \/ HandicapsSettle
    \/ HandleLoadEntries
    \/ LoadSettles

SpecNavigation ==
    Init /\ [][NextNavigation]_vars

\* ------------------------------------------------------------- properties
\* seedParticipants has returned.
Called ==
    pc # "idle"

\* seedParticipants has returned a successful placement.
Succeeded ==
    Called /\ placement.success

\* Number of participants passed to seedParticipants (a list was passed).
InputCount ==
    Len(participants.items)

\* The cell holds a real participant: neither null nor a BYE.
isReal(cell) ==
    cell # null /\ ~isBye(cell)

realCount(slots) ==
    Cardinality({k \in 1..Len(slots) : isReal(slots[k])})

byeCount(slots) ==
    Cardinality({k \in 1..Len(slots) : isBye(slots[k])})

\* Round-1 matches (cells 2i, 2i+1) with a real participant on both sides.
playInMatchCountOf(slots) ==
    Cardinality({i \in 0..(Len(slots) \div 2 - 1) :
                    isReal(at(slots, 2 * i)) /\ isReal(at(slots, 2 * i + 1))})

\* Number of cells holding the participant named name.
occurrences(slots, name) ==
    Cardinality({k \in 1..Len(slots) : isReal(slots[k]) /\ slots[k].name = name})

hasAvailabilityTag(ps) ==
    \E i \in 1..Len(ps) : ps[i].availability \in {"D", "N"}

\* C1: a successful placement of n participants, 1 <= n <= bracketSize, has
\* bracketSize cells, exactly n of them real participants and exactly
\* bracketSize - n of them BYEs, whatever the availability tags.
C1_SlotCounts ==
    (Succeeded /\ InputCount >= 1 /\ InputCount <= bracketSize)
        => /\ Len(placement.placed) = bracketSize
           /\ realCount(placement.placed) = InputCount
           /\ byeCount(placement.placed) = bracketSize - InputCount

\* C2: in a partial bracket (n < bracketSize) the number of round-1 matches
\* with two real participants is max(0, n - bracketSize/2).
C2_PlayInCount ==
    (Succeeded /\ InputCount < bracketSize)
        => playInMatchCountOf(placement.placed)
               = Max(0, InputCount - bracketSize \div 2)

\* C3: when some participant carries a Day or Night tag, every participant
\* passed in (n <= bracketSize) appears in exactly one cell.
C3_Conservation ==
    (Succeeded /\ InputCount <= bracketSize /\ hasAvailabilityTag(participants.items))
        => \A i \in 1..InputCount :
               occurrences(placement.placed, participants.items[i].name) = 1

\* C4: no cell of a successful placement is null.
C4_NoNullCell ==
    Succeeded => \A k \in 1..Len(placement.placed) : placement.placed[k] # null

C6_FullBracket ==
    (Succeeded /\ InputCount = bracketSize)
        => /\ byeCount(placement.placed) = 0
           /\ realCount(placement.placed) = bracketSize
           /\ placement.stats.playInMatches = bracketSize \div 2

\* C7: generateBracket on the array seedParticipants produced yields
\* bracketSize/2 matches numbered 1..bracketSize/2, match i+1 holding cell 2i
\* as player1 and cell 2i+1 as player2.
C7_PairsKeepPositions ==
    pc = "built"
        => /\ bracketResult.success
           /\ LET matches == bracketResult.bracket.rounds[1].matches
              IN  /\ Len(matches) = bracketSize \div 2
                  /\ \A i \in 0..(bracketSize \div 2 - 1) :
                        /\ at(matches, i).matchNumber = i + 1
                        /\ at(matches, i).player1 = at(placement.seeded, 2 * i)
                        /\ at(matches, i).player2 = at(placement.seeded, 2 * i + 1)

\* C8: a round-1 match has a winner iff exactly one side is a BYE, and the
\* winner is then the other side.
C8_WinnerIffOneBye ==
    (pc = "built" /\ bracketResult.success)
        => \A i \in 1..Len(bracketResult.bracket.rounds[1].matches) :
               LET m == bracketResult.bracket.rounds[1].matches[i]
                   bye1 == isBye(m.player1)
                   bye2 == isBye(m.player2)
               IN  /\ (m.winner # null) <=> (bye1 # bye2)
                   /\ (bye1 /\ ~bye2) => m.winner = m.player2
                   /\ (bye2 /\ ~bye1) => m.winner = m.player1

\* C9: a missing or empty participant list, or a bracket size outside
\* {8,16,32,64,128}, yields success=false with an error message and no
\* placed/seeded array.
C9_InvalidInputFails ==
    (Called /\ (participants = null \/ InputCount = 0
                   \/ bracketSize \notin {8, 16, 32, 64, 128}))
        => /\ placement.success = FALSE
           /\ "error" \in DOMAIN placement
           /\ "placed" \notin DOMAIN placement
           /\ "seeded" \notin DOMAIN placement

\* A non-empty list was passed with a bracket size that is not allowed.
C9_Witness ==
    /\ Called
    /\ participants # null
    /\ InputCount > 0
    /\ bracketSize = 12
    /\ ~placement.success

\* C10: more participants than bracketSize (an allowed size) fails with the
\* invalid-size error.
C10_TooManyFails ==
    (Called /\ participants # null /\ bracketSize \in {8, 16, 32, 64, 128}
            /\ InputCount > bracketSize)
        => /\ placement.success = FALSE
           /\ placement.error = "Invalid bracket size. Must be 8, 16, 32, 64, or 128"

\* C11: in the availability-aware partial placement the play-in matches
\* allocated to the Day half plus those allocated to the Night half equal
\* playInMatchCount.
C11_PlayInTotalKept ==
    (Succeeded /\ InputCount < bracketSize /\ hasAvailabilityTag(participants.items))
        => placement.stats.dayPlayInMatches + placement.stats.nightPlayInMatches
               = placement.stats.playInMatches

\* Round-1 matches with exactly one real participant and one BYE.
byeMatchCountOf(slots) ==
    Cardinality({i \in 0..(Len(slots) \div 2 - 1) :
                    \/ isReal(at(slots, 2 * i)) /\ isBye(at(slots, 2 * i + 1))
                    \/ isBye(at(slots, 2 * i)) /\ isReal(at(slots, 2 * i + 1))})

\* C12: 73 participants in a 128 bracket, untagged or in any Day/Night
\* split: stats reports playInMatches 9, playInParticipants 18, byeToRound2
\* 55, and the array has 9 matches with two real participants and 55 with one
\* real participant and one BYE.
C12_Example73 ==
    (Succeeded /\ InputCount = 73 /\ bracketSize = 128)
        => /\ placement.stats.playInMatches = 9
           /\ "playInParticipants" \in DOMAIN placement.stats
           /\ placement.stats.playInParticipants = 18
           /\ "byeToRound2" \in DOMAIN placement.stats
           /\ placement.stats.byeToRound2 = 55
           /\ playInMatchCountOf(placement.placed) = 9
           /\ byeMatchCountOf(placement.placed) = 55

\* ---------------------------------------------------------- team handicaps
\* calculateTeamHandicap has returned.
TeamCalled ==
    call # null /\ call.op = "calculateTeamHandicap"

\* The handicaps a player object carries (tenths).
handicapsOf(player) ==
    { player[f].value :
        f \in { g \in DOMAIN player \cap {"singlesHCAP", "singlesHandicap",
                                          "doublesHCAP", "doublesHandicap"} :
                  player[g] # null } }

\* The lowest handicap the player carries.
lowestOf(player) ==
    CHOOSE m \in handicapsOf(player) : \A x \in handicapsOf(player) : m <= x

\* The player's lowest handicap exists and is a whole number.
hasWholeHandicap(player) ==
    handicapsOf(player) # {} /\ lowestOf(player) % 10 = 0

\* C13: for players whose effective handicaps A and B are whole numbers the
\* result has difference |A-B|, adjustment 0 for difference 0, the table value
\* for 1..59 and 12.0 from 60 on, betterHandicap min(A,B) and teamHandicap
\* min(A,B) + adjustment; 32 and 45 give 13, 3.8 and 35.8; a negative
\* handicap beside a non-negative one is the better one.
C13_WholeHandicaps ==
    (TeamCalled /\ hasWholeHandicap(call.playerA) /\ hasWholeHandicap(call.playerB))
        => LET A == lowestOf(call.playerA)
               B == lowestOf(call.playerB)
               d == IF A >= B THEN A - B ELSE B - A
           IN  /\ returned.success
               /\ returned.difference = d
               /\ d = 0 => returned.adjustment = 0
               /\ (d >= 10 /\ d <= 590) => returned.adjustment = ADJUSTMENT_TABLE[d \div 10]
               /\ d >= 600 => returned.adjustment = 120
               /\ returned.betterHandicap = (IF A <= B THEN A ELSE B)
               /\ returned.teamHandicap = returned.betterHandicap + returned.adjustment
               /\ (A = 320 /\ B = 450)
                     => /\ returned.difference = 130
                        /\ returned.adjustment = 38
                        /\ returned.teamHandicap = 358
               /\ (A < 0 /\ B >= 0) => returned.betterHandicap = A
               /\ (B < 0 /\ A >= 0) => returned.betterHandicap = B

\* C13 witness: the IRTPA worked example, 32 and 45, has been computed as 35.8.
C13_Witness ==
    /\ TeamCalled
    /\ call.playerA = [doublesHCAP |-> num(320)]
    /\ call.playerB = [doublesHCAP |-> num(450)]
    /\ returned.success
    /\ returned.teamHandicap = 358

\* C14: for a difference d with a fractional part and 0 < d < 60 the
\* adjustment is the table entry of floor(d), 0 when floor(d) is 0, and it is
\* never larger than the table value of the next whole difference above d.
C14_FractionalDifferenceFloored ==
    (TeamCalled /\ returned.success
        /\ returned.difference % 10 # 0 /\ returned.difference < 600)
        => LET floored == returned.difference \div 10
           IN  /\ returned.adjustment =
                     (IF floored = 0 THEN 0 ELSE ADJUSTMENT_TABLE[floored])
               /\ returned.adjustment <= ADJUSTMENT_TABLE[floored + 1]

\* The effective handicap the result should report for a player: the lowest
\* handicap it carries, null when it carries none.
expectedEffective(player) ==
    IF handicapsOf(player) = {} THEN null ELSE num(lowestOf(player))

\* C15: the effective handicap is the minimum of singles and doubles when both
\* exist and the one that exists otherwise; the call fails, with no
\* teamHandicap field, exactly when a player has neither handicap.
C15_EffectiveHandicap ==
    TeamCalled
        => /\ returned.playerAHandicap = expectedEffective(call.playerA)
           /\ returned.playerBHandicap = expectedEffective(call.playerB)
           /\ returned.success
                 <=> (handicapsOf(call.playerA) # {} /\ handicapsOf(call.playerB) # {})
           /\ returned.success <=> "teamHandicap" \in DOMAIN returned

\* C15 witness: a player whose doubles handicap is the lower of its two is
\* paired with a player that has neither handicap.
C15_Witness ==
    /\ TeamCalled
    /\ call.playerA = [singlesHCAP |-> num(450), doublesHCAP |-> num(300)]
    /\ call.playerB = [singlesHCAP |-> null, doublesHCAP |-> null]
    /\ returned.playerAHandicap = num(300)
    /\ ~returned.success

\* --------------------------------------------------------- handicap rounding
\* The handicap of an event has been rounded.
RoundCalled ==
    call # null /\ call.op = "roundHandicap"

\* The event name contains the word, in any letter case.
nameContains(word) ==
    includes(toLowerCase(call.eventName), word)

\* The event name carries one of the class labels 1st .. 4th.
hasClassLabel ==
    \/ nameContains(<<"1", "s", "t">>)
    \/ nameContains(<<"2", "n", "d">>)
    \/ nameContains(<<"3", "r", "d">>)
    \/ nameContains(<<"4", "t", "h">>)

\* Highest handicap of the class the event name carries (tenths).
classMax ==
    IF nameContains(<<"4", "t", "h">>) THEN 490
    ELSE IF nameContains(<<"3", "r", "d">>) THEN 390
    ELSE IF nameContains(<<"2", "n", "d">>) THEN 290
    ELSE 190

\* Lowest handicap of that class; the 1st class has none.
classMin ==
    IF nameContains(<<"4", "t", "h">>) THEN 400
    ELSE IF nameContains(<<"3", "r", "d">>) THEN 300
    ELSE IF nameContains(<<"2", "n", "d">>) THEN 200
    ELSE -1

\* The handicap of the call clamped into the class of its event.
clamped ==
    IF call.handicap > classMax THEN classMax
    ELSE IF classMin >= 0 /\ call.handicap < classMin THEN classMin
    ELSE call.handicap

\* The three examples: 45 in "3rd Class" gives 39, 15 gives 15, 10 in
\* "Club Championship" gives 10.
roundingExamples ==
    /\ (call.eventName = <<"3", "r", "d", " ", "C", "l", "a", "s", "s">> /\ call.handicap = 450) => returned.rounded = 390
    /\ (call.eventName = <<"3", "r", "d", " ", "C", "l", "a", "s", "s">> /\ call.handicap = 150) => returned.rounded = 150
    /\ (call.eventName = <<"C", "l", "u", "b", " ", "C", "h", "a", "m", "p", "i", "o", "n", "s", "h", "i", "p">> /\ call.handicap = 100) => returned.rounded = 100

\* C16 as stated: a handicap that is negative or at most 19 is unchanged for
\* every event; an event whose name contains 'championship' or 'club' has no
\* bounds and leaves every handicap unchanged; otherwise a handicap above 19 is
\* capped to the class max and raised to the class min, so the result lies in
\* [min, max].
C16_RoundingByClass ==
    RoundCalled
        => /\ call.handicap <= 190 => returned.rounded = call.handicap
           /\ (nameContains(<<"c", "h", "a", "m", "p", "i", "o", "n", "s", "h", "i", "p">>) \/ nameContains(<<"c", "l", "u", "b">>))
                 => returned.bounds = null /\ returned.rounded = call.handicap
           /\ (/\ ~(nameContains(<<"c", "h", "a", "m", "p", "i", "o", "n", "s", "h", "i", "p">>) \/ nameContains(<<"c", "l", "u", "b">>))
               /\ hasClassLabel
               /\ call.handicap > 190)
                 => /\ returned.rounded = clamped
                    /\ returned.rounded <= classMax
                    /\ returned.rounded >= classMin
           /\ roundingExamples

\* C16 amended: a handicap that is negative or at most 19 is unchanged for
\* every event; an event whose name contains 'champ' or 'club' in any letter
\* case, or carries no class label, has no bounds and leaves every handicap
\* unchanged; otherwise a handicap above 19 is capped to the class max and
\* raised to the class min, so the result lies in [min, max].
C16_RoundingByClassAmended ==
    RoundCalled
        => /\ call.handicap <= 190 => returned.rounded = call.handicap
           /\ (nameContains(<<"c", "h", "a", "m", "p">>) \/ nameContains(<<"c", "l", "u", "b">>) \/ ~hasClassLabel)
                 => returned.bounds = null /\ returned.rounded = call.handicap
           /\ (/\ ~(nameContains(<<"c", "h", "a", "m", "p">>) \/ nameContains(<<"c", "l", "u", "b">>))
               /\ hasClassLabel
               /\ call.handicap > 190)
                 => /\ returned.rounded = clamped
                    /\ returned.rounded <= classMax
                    /\ returned.rounded >= classMin
           /\ roundingExamples

\* C16 witness: 45 in "3rd Class" has been capped to 39.
C16_Witness ==
    /\ RoundCalled
    /\ call.eventName = <<"3", "r", "d", " ", "C", "l", "a", "s", "s">>
    /\ call.handicap = 450
    /\ returned.rounded = 390

\* ------------------------------------------------------ halves and overflow
\* The cell with JavaScript index i holds a participant tagged tag.
holdsTagged(i, tag) ==
    isReal(at(placement.placed, i)) /\ at(placement.placed, i).availability = tag

\* C18: in a partial bracket placed with availability data every placed Day
\* participant sits at an index below bracketSize/2 and every placed Night
\* participant at an index from bracketSize/2 on.
C18_DayTopNightBottom ==
    (Succeeded /\ InputCount < bracketSize /\ hasAvailabilityTag(participants.items))
        => \A i \in 0..(Len(placement.placed) - 1) :
              /\ holdsTagged(i, "D") => i < bracketSize \div 2
              /\ holdsTagged(i, "N") => i >= bracketSize \div 2

\* C18 witness: a partial bracket with a Day participant placed in the top
\* half and a Night participant placed in the bottom half.
C18_Witness ==
    /\ Succeeded
    /\ InputCount < bracketSize
    /\ \E i \in 0..(bracketSize \div 2 - 1) : holdsTagged(i, "D")
    /\ \E i \in (bracketSize \div 2)..(bracketSize - 1) : holdsTagged(i, "N")

\* Number of participants of the call tagged tag.
taggedCount(tag) ==
    Cardinality({k \in 1..Len(participants.items) : participants.items[k].availability = tag})

\* JavaScript indices of the cells holding a participant tagged tag.
indicesOf(tag) ==
    {i \in 0..(Len(placement.placed) - 1) : holdsTagged(i, tag)}

\* The indices form one range without a gap.
contiguous(indices) ==
    \A i \in indices, j \in indices : \A k \in i..j : k \in indices

\* C19: in a full bracket with availability data where one group has more
\* than bracketSize/2 members the overflow members are placed too: every Day
\* and Night participant occupies exactly one cell and each group occupies one
\* contiguous index range.
C19_OverflowPlacedContiguously ==
    (/\ Succeeded
     /\ InputCount = bracketSize
     /\ (taggedCount("D") > bracketSize \div 2 \/ taggedCount("N") > bracketSize \div 2))
        => /\ \A k \in 1..Len(participants.items) :
                 participants.items[k].availability \in {"D", "N"}
                    => occurrences(placement.placed, participants.items[k].name) = 1
           /\ contiguous(indicesOf("D"))
           /\ contiguous(indicesOf("N"))

\* C20: every round-1 match (cells 2i, 2i+1) of a successful placement is a
\* play-in match with two real participants or a bye match with exactly one
\* real participant and one BYE; no match has a BYE on both sides.  Stated
\* for bracketSize/2 <= n <= bracketSize, where there are enough participants
\* to give every match one.
C20_NoDoubleByeMatch ==
    (Succeeded /\ 2 * InputCount >= bracketSize /\ InputCount <= bracketSize)
        => \A i \in 0..(Len(placement.placed) \div 2 - 1) :
              LET first == at(placement.placed, 2 * i)
                  second == at(placement.placed, 2 * i + 1)
              IN  \/ isReal(first) /\ isReal(second)
                  \/ isReal(first) /\ isBye(second)
                  \/ isBye(first) /\ isReal(second)

\* ------------------------------------------------------------------ pipeline
\* C21: the bracket size the pipeline computes for n participants, n >= 1, is
\* one of 8, 16, 32, 64, 128 and seedParticipants succeeds with it.
C21_ComputedSizeAccepted ==
    (Called /\ InputCount >= 1 /\ bracketSize = computedBracketSize(InputCount))
        => /\ bracketSize \in {8, 16, 32, 64, 128}
           /\ placement.success

\* ------------------------------------------------------------ error handling
\* A result object: success is a boolean and a failure carries a message.
isResultObject(r) ==
    /\ "success" \in DOMAIN r
    /\ r.success \in BOOLEAN
    /\ ~r.success => ("error" \in DOMAIN r /\ r.error # "")

\* C22: no exception escapes seedParticipants or generateBracket: for a
\* missing list, a list with null elements or an invalid bracket size each
\* call returns an object whose success is true or false and which carries an
\* error message on failure.
C22_NoExceptionEscapes ==
    /\ pc = "placed" => isResultObject(placement)
    /\ pc = "built" => isResultObject(bracketResult)

\* C22 witness: seedParticipants was given a valid bracket size and a list
\* with a null element, and the TypeError came back as a failure result.
C22_Witness ==
    /\ pc = "placed"
    /\ bracketSize \in AllowedBracketSizes
    /\ participants # null
    /\ \E i \in 1..Len(participants.items) : participants.items[i] = null
    /\ ~placement.success

\* ------------------------------------------------------------ sheets requests
\* C24: a call of getSheetData, listSpreadsheets or getSpreadsheetInfo sends
\* at most two GETs and at most one token refresh, whatever the server
\* answers: it waits for a second GET only after the one refresh, it starts a
\* refresh only after its first GET, and after the retry it sends nothing more.
C24_AtMostOneRetry ==
    request # null
        => /\ request.fetches <= 2
           /\ request.refreshes <= 1
           /\ request.at = "fetch"
                 => request.fetches = (IF request.retried THEN 1 ELSE 0)
           /\ request.at = "refresh"
                 => (~request.retried /\ request.fetches = 1 /\ request.refreshes = 0)
           /\ request.retried => request.refreshes = 1

\* C24 witness: a call got 401, refreshed, retried, got 401 again and returned.
C24_Witness ==
    /\ request # null
    /\ request.at = "done"
    /\ request.fetches = 2
    /\ request.refreshes = 1
    /\ request.outcome = failure("Authentication failed after refresh. Please reconnect.")

\* The call in progress returns in this step because it got a 401 and the
\* access token could not be refreshed: the refresh request failed, no
\* refresh token is stored, or the retried request got 401 again.
returnsUnrefreshable ==
    /\ awaiting("fetch") \/ awaiting("refresh")
    /\ request'.at = "done"
    /\ "error" \in DOMAIN request'.outcome
    /\ request'.outcome.error \in
          {"Session expired. Please reconnect to Google Sheets.",
           "No refresh token available",
           "Authentication failed after refresh. Please reconnect."}

\* C25: whenever a request gets a 401 and the access token cannot be
\* refreshed, the request returns success=false and the client is marked
\* unauthenticated.
C25_UnrefreshableMarksUnauthenticated ==
    [][returnsUnrefreshable
          => /\ "success" \in DOMAIN request'.outcome
             /\ ~request'.outcome.success
             /\ ~sheetsAPI'.isAuthenticated]_vars

\* ------------------------------------------------------ pure-random placement
\* Round-1 matches with a BYE on both sides.
doubleByeMatchCountOf(slots) ==
    Cardinality({i \in 0..(Len(slots) \div 2 - 1) :
                    isBye(at(slots, 2 * i)) /\ isBye(at(slots, 2 * i + 1))})

\* C26: with no Day or Night tag and 1 <= n < bracketSize, for every outcome
\* of the shuffles every participant is in exactly one slot, there are exactly
\* max(0, n - bracketSize/2) matches with two real participants, exactly
\* n - 2*max(0, n - bracketSize/2) matches with one real participant and one
\* BYE, and all remaining matches have BYEs on both sides.
C26_PureRandomLayout ==
    (/\ Succeeded
     /\ InputCount >= 1
     /\ InputCount < bracketSize
     /\ ~hasAvailabilityTag(participants.items))
        => LET playIns == Max(0, InputCount - bracketSize \div 2)
               byes == InputCount - 2 * playIns
           IN  /\ Len(placement.placed) = bracketSize
               /\ \A k \in 1..InputCount :
                     occurrences(placement.placed, participants.items[k].name) = 1
               /\ playInMatchCountOf(placement.placed) = playIns
               /\ byeMatchCountOf(placement.placed) = byes
               /\ doubleByeMatchCountOf(placement.placed)
                     = bracketSize \div 2 - playIns - byes

\* C26 witness: an untagged partial draw laid out with two play-in matches
\* and two bye matches.
C26_Witness ==
    /\ Succeeded
    /\ InputCount < bracketSize
    /\ ~hasAvailabilityTag(participants.items)
    /\ playInMatchCountOf(placement.placed) = 2
    /\ byeMatchCountOf(placement.placed) = 2

\* C27: in every placed array a match holding exactly one real participant
\* has it in the even slot 2i with the BYE in the odd slot 2i+1, and every
\* winner buildRound1 sets on that array is player1 and a real participant.
C27_ByeWinnerIsPlayer1 ==
    (pc = "built" /\ bracketResult.success)
        => /\ \A i \in 0..(Len(placement.placed) \div 2 - 1) :
                 LET first == at(placement.placed, 2 * i)
                     second == at(placement.placed, 2 * i + 1)
                 IN  (isReal(first) /\ ~isReal(second)) \/ (~isReal(first) /\ isReal(second))
                        => isReal(first) /\ isBye(second)
           /\ \A k \in 1..Len(bracketResult.bracket.rounds[1].matches) :
                 LET match == bracketResult.bracket.rounds[1].matches[k]
                 IN  match.winner # null
                        => match.winner = match.player1 /\ isReal(match.winner)

\* ------------------------------------------------------ team handicap range
\* C28: for whole effective handicaps A and B the team handicap lies between
\* them: the adjustment is not negative and not larger than the difference,
\* and the two players in the other order get the same team handicap.
C28_TeamHandicapBetween ==
    (TeamCalled /\ hasWholeHandicap(call.playerA) /\ hasWholeHandicap(call.playerB))
        => LET A == lowestOf(call.playerA)
               B == lowestOf(call.playerB)
           IN  /\ returned.success
               /\ returned.teamHandicap >= (IF A <= B THEN A ELSE B)
               /\ returned.teamHandicap <= (IF A <= B THEN B ELSE A)
               /\ returned.adjustment >= 0
               /\ returned.adjustment <= (IF A <= B THEN B - A ELSE A - B)
               /\ calculateTeamHandicap(call.playerB, call.playerA).teamHandicap
                     = returned.teamHandicap

\* C28 witness: 45 paired with 32, the worse player first, gives 35.8, which
\* lies strictly between the two.
C28_Witness ==
    /\ TeamCalled
    /\ call.playerA = [doublesHCAP |-> num(450)]
    /\ call.playerB = [doublesHCAP |-> num(320)]
    /\ returned.success
    /\ returned.teamHandicap > 320
    /\ returned.teamHandicap < 450

\* validateEntries has been called and has returned.
ValidationCalled ==
    IF call = null THEN FALSE ELSE call.op = "validateEntries"

\* The entries of the validated list that have an error attached: an error
\* object names them by entryIndex, and a per-player count error by the
\* player's normalised name.
entriesWithError ==
    { i \in 1..Len(call.entries) :
        \E e \in 1..Len(returned.errors) :
           LET error == returned.errors[e]
           IN  IF "entryIndex" \in DOMAIN error
               THEN error.entryIndex = i - 1
               ELSE /\ playerNameOf(call.entries[i]) # <<>>
                    /\ countKey(call.entries[i]) = error.playerName }

\* C29: validEntries is between 0 and totalEntries and equals the number of
\* entries that have no error attached, however many checks an entry fails.
C29_ValidEntriesCounted ==
    ValidationCalled =>
        /\ returned.totalEntries = Len(call.entries)
        /\ 0 <= returned.validEntries
        /\ returned.validEntries <= returned.totalEntries
        /\ returned.validEntries = Len(call.entries) - Cardinality(entriesWithError)

\* A goForward call has just moved the manager from screen `from` to the next.
advancedFrom(from) ==
    IF call = null THEN FALSE
    ELSE /\ call.op = "goForward"
         /\ call.from = from
         /\ navigation.currentScreen = from + 1

\* C30: under any sequence of goForward and goBack calls, the delayed ones
\* included, currentScreen stays within 1..totalScreens, changes by at most one
\* per call, and increases only when the current screen's canProceed check is
\* true: screen 2 is entered only while connected, screen 3 only while at
\* least one participant is loaded.
C30_NavigationGuarded ==
    [][ /\ navigation'.currentScreen \in 1..navigation'.totalScreens
        /\ navigation'.currentScreen - navigation.currentScreen \in {-1, 0, 1}
        /\ navigation'.currentScreen > navigation.currentScreen
              => /\ canProceed(navigation.currentScreen, appState)
                 /\ navigation'.currentScreen = 2 => appState'.connected
                 /\ navigation'.currentScreen = 3
                       => Len(appState'.currentParticipants) > 0 ]_vars

\* C30 witness: the timeout set after loading entries has fired on screen 2
\* with a participant loaded, and the manager is on screen 3.
C30_Witness ==
    /\ advancedFrom(2)
    /\ call.by = "timer"
    /\ navigation.currentScreen = 3
    /\ Len(appState.currentParticipants) > 0
====
